---- MODULE Spec2Model ----
(***************************************************************************)
(* OnionForge calculator: the expression engine (validation, tokenizer,    *)
(* shunting-yard converter, RPN evaluator) and the CalculatorState         *)
(* interaction state machine of src/src/assets/js/calculator.js.           *)
(*                                                                         *)
(* A JavaScript string is a sequence of one-character strings.  A          *)
(* JavaScript number is NaN or an exact rational sign * num / den whose    *)
(* numerator and denominator are decimal digit sequences (most significant *)
(* digit first, <<>> is zero), so that no value of the model is cut to the *)
(* width of a machine integer.  IEEE-754 doubles agree with this exact     *)
(* arithmetic after _roundResult for operands and results of fewer than 15 *)
(* significant digits, which is the range the bounds below keep to.        *)
(***************************************************************************)
EXTENDS Integers, Sequences, FiniteSets, TLC

(***************************************************************************)
(* Characters and digit sequences                                          *)
(***************************************************************************)
DigitChars == <<"0", "1", "2", "3", "4", "5", "6", "7", "8", "9">>

DigitSet == {DigitChars[i] : i \in 1..10}

DigitValue == [c \in DigitSet |-> (CHOOSE i \in 1..10 : DigitChars[i] = c) - 1]

IsDigit(c) == c \in DigitSet

DigitVal(c) == DigitValue[c]

DigitChar(d) == DigitChars[d + 1]

Max(a, b) == IF a >= b THEN a ELSE b

RECURSIVE BNorm(_)
BNorm(a) == IF a = <<>> THEN <<>> ELSE IF a[1] = 0 THEN BNorm(Tail(a)) ELSE a

BZeros(n) == [i \in 1..n |-> 0]

BPad(a, n) == IF Len(a) = n THEN a ELSE BZeros(n - Len(a)) \o a

BOne == <<1>>

BPow10(k) == <<1>> \o BZeros(k)

IsPow10(a) == a # <<>> /\ a[1] = 1 /\ \A i \in 2..Len(a) : a[i] = 0

BTimesPow10(a, k) == IF a = <<>> \/ k = 0 THEN a ELSE a \o BZeros(k)

\* a < b by the first digit that differs, for a and b of one length
RECURSIVE BLessAt(_, _, _)
BLessAt(a, b, i) ==
    IF i > Len(a) THEN FALSE
    ELSE IF a[i] # b[i] THEN a[i] < b[i]
    ELSE BLessAt(a, b, i + 1)

BLess(a, b) == IF Len(a) # Len(b) THEN Len(a) < Len(b) ELSE BLessAt(a, b, 1)

RECURSIVE BAddR(_, _, _, _)
BAddR(a, b, i, c) ==
    IF i = 0 THEN (IF c = 0 THEN <<>> ELSE <<c>>)
    ELSE LET s == a[i] + b[i] + c
         IN  Append(BAddR(a, b, i - 1, s \div 10), s % 10)

BAdd(a, b) ==
    IF a = <<>> THEN b
    ELSE IF b = <<>> THEN a
    ELSE LET n == Max(Len(a), Len(b)) IN BAddR(BPad(a, n), BPad(b, n), n, 0)

RECURSIVE BSubR(_, _, _, _)
BSubR(a, b, i, c) ==
    IF i = 0 THEN <<>>
    ELSE LET s == a[i] - b[i] - c
         IN  Append(BSubR(a, b, i - 1, IF s < 0 THEN 1 ELSE 0),
                    IF s < 0 THEN s + 10 ELSE s)

\* a - b for a >= b
BSub(a, b) ==
    IF b = <<>> THEN a ELSE BNorm(BSubR(a, BPad(b, Len(a)), Len(a), 0))

RECURSIVE BMulDigitR(_, _, _, _)
BMulDigitR(a, d, i, c) ==
    IF i = 0 THEN (IF c = 0 THEN <<>> ELSE <<c>>)
    ELSE LET s == a[i] * d + c
         IN  Append(BMulDigitR(a, d, i - 1, s \div 10), s % 10)

\* a * d for a digit d
BMulDigit(a, d) ==
    IF d = 0 THEN <<>> ELSE IF d = 1 THEN a ELSE BMulDigitR(a, d, Len(a), 0)

RECURSIVE BOfNat(_)
BOfNat(n) == IF n = 0 THEN <<>> ELSE Append(BOfNat(n \div 10), n % 10)

\* the natural number of at most nine digits that a writes
RECURSIVE BToNat(_, _)
BToNat(a, i) == IF i = 0 THEN 0 ELSE BToNat(a, i - 1) * 10 + a[i]

\* a * n for a natural number n < 10^8, digit by digit with a carry
RECURSIVE BMulSmallR(_, _, _, _)
BMulSmallR(a, n, i, c) ==
    IF i = 0 THEN (IF c = 0 THEN <<>> ELSE BMulSmallR(<<>>, n, 0, c \div 10) \o <<c % 10>>)
    ELSE LET s == a[i] * n + c
         IN  Append(BMulSmallR(a, n, i - 1, s \div 10), s % 10)

RECURSIVE BMulR(_, _, _)
BMulR(a, b, j) ==
    IF j = 0 THEN <<>>
    ELSE BAdd(BTimesPow10(BMulR(a, b, j - 1), 1), BMulDigit(a, b[j]))

BMul(a, b) ==
    IF a = <<>> \/ b = <<>> THEN <<>>
    ELSE IF IsPow10(b) THEN BTimesPow10(a, Len(b) - 1)
    ELSE IF IsPow10(a) THEN BTimesPow10(b, Len(a) - 1)
    ELSE IF Len(b) <= 8 THEN BMulSmallR(a, BToNat(b, Len(b)), Len(a), 0)
    ELSE IF Len(a) <= 8 THEN BMulSmallR(b, BToNat(a, Len(a)), Len(b), 0)
    ELSE BMulR(a, b, Len(b))

\* the greatest digit d with m[d + 1] = b * d <= c
RECURSIVE BQuotDigit(_, _, _)
BQuotDigit(c, m, d) ==
    IF d = 0 \/ ~BLess(c, m[d + 1]) THEN d ELSE BQuotDigit(c, m, d - 1)

\* long division of the first i digits of a by b, m the multiples of b; the
\* first k digits of a, fewer than b has, give no quotient digit
RECURSIVE BDivModR(_, _, _, _)
BDivModR(a, m, k, i) ==
    IF i <= k \/ Len(m) = 0 THEN [q |-> <<>>, r |-> BNorm(SubSeq(a, 1, k))]
    ELSE LET p == BDivModR(a, m, k, i - 1)
             cur == BNorm(Append(p.r, a[i]))
             d == BQuotDigit(cur, m, 9)
         IN  [q |-> Append(p.q, d), r |-> BSub(cur, m[d + 1])]

\* long division of the first i digits of a by a natural number n < 10^8
RECURSIVE BDivModSmallR(_, _, _)
BDivModSmallR(a, n, i) ==
    IF i = 0 THEN [q |-> <<>>, r |-> 0]
    ELSE LET p == BDivModSmallR(a, n, i - 1)
             cur == p.r * 10 + a[i]
         IN  [q |-> Append(p.q, cur \div n), r |-> cur % n]

\* b * 0, ..., b * 9
Multiples(b) ==
    <<BMulDigit(b, 0), BMulDigit(b, 1), BMulDigit(b, 2), BMulDigit(b, 3),
      BMulDigit(b, 4), BMulDigit(b, 5), BMulDigit(b, 6), BMulDigit(b, 7),
      BMulDigit(b, 8), BMulDigit(b, 9)>>

\* floor(a / b) and a mod b for b # 0
BDivMod(a, b) ==
    IF BLess(a, b) THEN [q |-> <<>>, r |-> a]
    ELSE IF IsPow10(b)
    THEN [q |-> SubSeq(a, 1, Len(a) - (Len(b) - 1)),
          r |-> BNorm(SubSeq(a, Len(a) - (Len(b) - 1) + 1, Len(a)))]
    ELSE IF Len(b) <= 8
    THEN LET p == BDivModSmallR(a, BToNat(b, Len(b)), Len(a))
         IN  [q |-> BNorm(p.q), r |-> BOfNat(p.r)]
    ELSE LET p == BDivModR(a, Multiples(b), Len(b) - 1, Len(a))
         IN  [q |-> BNorm(p.q), r |-> p.r]

BDiv(a, b) == BDivMod(a, b).q

BMod(a, b) == BDivMod(a, b).r

(***************************************************************************)
(* JavaScript numbers                                                      *)
(***************************************************************************)
NaN == [nan |-> TRUE, neg |-> FALSE, num |-> <<>>, den |-> BOne]

Zero == [nan |-> FALSE, neg |-> FALSE, num |-> <<>>, den |-> BOne]

\* the number sign * num / den; zero carries no sign (-0 === 0, and prints "0")
MkNum(neg, num, den) ==
    [nan |-> FALSE, neg |-> (neg /\ num # <<>>), num |-> num, den |-> den]

NumOfNat(n) == MkNum(FALSE, BOfNat(n), BOne)

IsZero(x) == ~x.nan /\ x.num = <<>>

\* x === y on numbers (NaN equals nothing)
NumEq(x, y) ==
    ~x.nan /\ ~y.nan /\ x.neg = y.neg /\ BMul(x.num, y.den) = BMul(y.num, x.den)

RECURSIVE TrailingZeros(_, _)
TrailingZeros(a, i) ==
    IF i >= 1 /\ a[i] = 0 THEN 1 + TrailingZeros(a, i - 1) ELSE 0

StripTrailingZeros(a) == SubSeq(a, 1, Len(a) - TrailingZeros(a, Len(a)))

Min(a, b) == IF a <= b THEN a ELSE b

\* a decimal sign * num / 10^k brought to its least k
Canon(x) ==
    IF x.nan THEN NaN
    ELSE IF x.num = <<>> THEN Zero
    ELSE LET z == Min(TrailingZeros(x.num, Len(x.num)), Len(x.den) - 1)
         IN  [x EXCEPT !.num = SubSeq(@, 1, Len(@) - z),
                       !.den = SubSeq(@, 1, Len(@) - z)]

SignedSum(xneg, xn, yneg, yn, den) ==
    IF xneg = yneg THEN MkNum(xneg, BAdd(xn, yn), den)
    ELSE IF BLess(xn, yn) THEN MkNum(yneg, BSub(yn, xn), den)
    ELSE MkNum(xneg, BSub(xn, yn), den)

\* a + b
NumAdd(a, b) ==
    IF a.nan \/ b.nan THEN NaN
    ELSE SignedSum(a.neg, BMul(a.num, b.den), b.neg, BMul(b.num, a.den),
                   BMul(a.den, b.den))

\* a - b
NumSub(a, b) ==
    IF a.nan \/ b.nan THEN NaN
    ELSE SignedSum(a.neg, BMul(a.num, b.den), ~b.neg, BMul(b.num, a.den),
                   BMul(a.den, b.den))

\* a * b
NumMul(a, b) ==
    IF a.nan \/ b.nan THEN NaN
    ELSE MkNum(a.neg # b.neg, BMul(a.num, b.num), BMul(a.den, b.den))

\* a / b for b # 0
NumDiv(a, b) ==
    IF a.nan \/ b.nan THEN NaN
    ELSE MkNum(a.neg # b.neg, BMul(a.num, b.den), BMul(a.den, b.num))

\* a % b for b # 0: the remainder of the truncated division, with a's sign
NumMod(a, b) ==
    IF a.nan \/ b.nan THEN NaN
    ELSE MkNum(a.neg, BMod(BMul(a.num, b.den), BMul(a.den, b.num)),
               BMul(a.den, b.den))

(***************************************************************************)
(* 1. Configuration and constants                                          *)
(***************************************************************************)
MAX_DISPLAY_LENGTH == 16

MAX_DECIMAL_PLACES == 10

HISTORY_LIMIT == 10

DEFAULT_DISPLAY_VALUE == <<"0">>

ERROR_MESSAGE == <<"E", "r", "r", "o", "r">>

OPERATORS == {"+", "-", "*", "/", "%"}

DECIMAL == "."

DIVISION_BY_ZERO == "DIVISION_BY_ZERO"

INVALID_INPUT == "INVALID_INPUT"

OVERFLOW == "OVERFLOW"

SYNTAX_ERROR == "SYNTAX_ERROR"

ERROR_TYPES == {DIVISION_BY_ZERO, INVALID_INPUT, OVERFLOW, SYNTAX_ERROR}

\* an operation's outcome: a value returned or a CalculatorError thrown
Return(v) == [ok |-> TRUE, val |-> v, type |-> "none"]

Throw(t) == [ok |-> FALSE, val |-> NaN, type |-> t]

(***************************************************************************)
(* 3-5. Operations and the operation factory                               *)
(***************************************************************************)
isOperator(symbol) == symbol \in OPERATORS

\* every operation constructed with precedence 1
precedenceFlat(symbol) == IF symbol \in OPERATORS THEN 1 ELSE 2

\* Operation.precedence as set by the five constructors
precedence(symbol) == IF symbol \in {"+", "-"} THEN 1 ELSE 2

AdditionOperation(a, b) == Return(NumAdd(a, b))

SubtractionOperation(a, b) == Return(NumSub(a, b))

MultiplicationOperation(a, b) == Return(NumMul(a, b))

\* DivisionOperation.execute without "if (b === 0)": 1/0 is Infinity, 0/0 NaN,
\* neither a finite number
DivisionOperationUnchecked(a, b) ==
    Return(IF IsZero(b) THEN NaN ELSE NumDiv(a, b))

DivisionOperation(a, b) ==
    IF IsZero(b) THEN Throw(DIVISION_BY_ZERO) ELSE Return(NumDiv(a, b))

ModuloOperation(a, b) ==
    IF IsZero(b) THEN Throw(DIVISION_BY_ZERO) ELSE Return(NumMod(a, b))

\* execute(b, a): the operands in the order they are popped
executeSwapped(symbol, a, b) ==
    CASE symbol = "+" -> AdditionOperation(b, a)
      [] symbol = "-" -> SubtractionOperation(b, a)
      [] symbol = "*" -> MultiplicationOperation(b, a)
      [] symbol = "/" -> DivisionOperation(b, a)
      [] symbol = "%" -> ModuloOperation(b, a)
      [] OTHER -> Throw(INVALID_INPUT)

\* createOperation(symbol).execute(a, b)
execute(symbol, a, b) ==
    CASE symbol = "+" -> AdditionOperation(a, b)
      [] symbol = "-" -> SubtractionOperation(a, b)
      [] symbol = "*" -> MultiplicationOperation(a, b)
      [] symbol = "/" -> DivisionOperation(a, b)
      [] symbol = "%" -> ModuloOperation(a, b)
      [] OTHER -> Throw(INVALID_INPUT)

(***************************************************************************)
(* 6. CalculationEngine                                                    *)
(***************************************************************************)
VARIABLES
    argument,            \* the argument of the last direct call of the engine
    outcome,             \* what that call returned or threw, NotCalled before it
    answers              \* the direct calls so far in order: argument and outcome

TAB == "\t"

NEWLINE == "\n"

\* the characters the class \s of a regular expression accepts (those modelled)
Whitespace == {" ", TAB, NEWLINE}

\* /^[0-9+\-*\/%.()\s]+$/
ValidChars ==
    DigitSet \cup OPERATORS \cup {".", "(", ")"} \cup Whitespace

UpperCase == <<"A", "B", "C", "D", "E", "F", "G", "H", "I", "J", "K", "L", "M", "N", "O", "P", "Q", "R", "S", "T", "U", "V", "W", "X", "Y", "Z">>

LowerCase == <<"a", "b", "c", "d", "e", "f", "g", "h", "i", "j", "k", "l", "m", "n", "o", "p", "q", "r", "s", "t", "u", "v", "w", "x", "y", "z">>

LowerOf == [c \in {UpperCase[i] : i \in 1..26} |-> LowerCase[CHOOSE i \in 1..26 : UpperCase[i] = c]]

\* the /i flag: letters compared without case
ToLower(c) == IF c \in DOMAIN LowerOf THEN LowerOf[c] ELSE c

LowerString(s) == [i \in 1..Len(s) |-> ToLower(s[i])]

HasSubstring(s, p) ==
    \E i \in 0..(Len(s) - Len(p)) : SubSeq(s, i + 1, i + Len(p)) = p

\* /new\s+Function/i on a lower-cased string
HasNewFunction(s) ==
    \E i \in 0..(Len(s) - 12) : \E k \in 1..(Len(s) - 11 - i) :
        /\ SubSeq(s, i + 1, i + 3) = <<"n", "e", "w">>
        /\ \A j \in (i + 4)..(i + 3 + k) : s[j] \in Whitespace
        /\ SubSeq(s, i + 4 + k, i + 11 + k) = <<"f", "u", "n", "c", "t", "i", "o", "n">>

\* the literal patterns of dangerousPatterns, lower-cased
dangerousPatterns ==
    { <<"e", "v", "a", "l", "(">>,
      <<"f", "u", "n", "c", "t", "i", "o", "n", "(">>,
      <<".", "c", "o", "n", "s", "t", "r", "u", "c", "t", "o", "r">>,
      <<"_", "_", "p", "r", "o", "t", "o", "_", "_">>,
      <<"p", "r", "o", "c", "e", "s", "s", ".">>,
      <<"r", "e", "q", "u", "i", "r", "e", "(">>,
      <<"i", "m", "p", "o", "r", "t", "(">> }

\* the running balance of a loop without "if (balance < 0) break"
RECURSIVE BalanceNoBreak(_, _, _)
BalanceNoBreak(expression, i, balance) ==
    IF i > Len(expression) THEN balance
    ELSE LET b == IF expression[i] = "(" THEN balance + 1
                  ELSE IF expression[i] = ")" THEN balance - 1
                  ELSE balance
         IN  BalanceNoBreak(expression, i + 1, b)

\* the running parenthesis balance after the loop "for (const char of expression)"
RECURSIVE Balance(_, _, _)
Balance(expression, i, balance) ==
    IF i > Len(expression) THEN balance
    ELSE LET b == IF expression[i] = "(" THEN balance + 1
                  ELSE IF expression[i] = ")" THEN balance - 1
                  ELSE balance
         IN  IF b < 0 THEN b ELSE Balance(expression, i + 1, b)

\* _validateExpression with the parenthesis balance checked before the
\* patterns and the characters
validateBalanceFirst(expression) ==
    IF Len(expression) = 0 THEN INVALID_INPUT
    ELSE IF Balance(expression, 1, 0) # 0 THEN SYNTAX_ERROR
    ELSE IF LET lower == LowerString(expression)
            IN  \/ \E p \in dangerousPatterns : HasSubstring(lower, p)
                \/ HasNewFunction(lower)
         THEN INVALID_INPUT
    ELSE IF \E i \in 1..Len(expression) : expression[i] \notin ValidChars
         THEN INVALID_INPUT
    ELSE "none"

\* _validateExpression on a string: "none" or the type of the error thrown
validateExpression(expression) ==
    IF Len(expression) = 0 THEN INVALID_INPUT
    ELSE IF LET lower == LowerString(expression)
            IN  \/ \E p \in dangerousPatterns : HasSubstring(lower, p)
                \/ HasNewFunction(lower)
         THEN INVALID_INPUT
    ELSE IF \E i \in 1..Len(expression) : expression[i] \notin ValidChars
         THEN INVALID_INPUT
    ELSE IF Balance(expression, 1, 0) # 0 THEN SYNTAX_ERROR
    ELSE "none"

\* _tokenizeExpression: the loop's tokens and currentNumber after i characters
RECURSIVE TokenizeR(_, _)
TokenizeR(expression, i) ==
    IF i = 0 THEN [tokens |-> <<>>, currentNumber |-> <<>>]
    ELSE LET p == TokenizeR(expression, i - 1)
             char == expression[i]
         IN  IF IsDigit(char) \/ char = "."
             THEN [p EXCEPT !.currentNumber = Append(@, char)]
             ELSE LET flushed == IF p.currentNumber # <<>>
                                 THEN Append(p.tokens, p.currentNumber)
                                 ELSE p.tokens
                  IN  [tokens |-> IF char # " " THEN Append(flushed, <<char>>)
                                  ELSE flushed,
                       currentNumber |-> <<>>]

tokenizeExpression(expression) ==
    LET p == TokenizeR(expression, Len(expression))
    IN  IF p.currentNumber # <<>> THEN Append(p.tokens, p.currentNumber)
        ELSE p.tokens

\* a run of digits and dots that Number() reads as a number
IsDecimalLiteral(token) ==
    /\ \A i \in 1..Len(token) : IsDigit(token[i]) \/ token[i] = "."
    /\ \E i \in 1..Len(token) : IsDigit(token[i])
    /\ Cardinality({i \in 1..Len(token) : token[i] = "."}) <= 1

\* Number() reads a string of white space alone as 0
IsBlank(token) == \A i \in 1..Len(token) : token[i] \in Whitespace

\* _isNumber: !isNaN(token) && isFinite(token) on a token of the tokenizer
isNumber(token) == IsBlank(token) \/ IsDecimalLiteral(token)

\* parseFloat on a token that passed _isNumber
parseFloat(token) ==
    IF ~IsDecimalLiteral(token) THEN NaN
    ELSE LET dot == IF \E i \in 1..Len(token) : token[i] = "."
                    THEN CHOOSE i \in 1..Len(token) : token[i] = "."
                    ELSE Len(token) + 1
             digits == SelectSeq(token, IsDigit)
         IN  MkNum(FALSE,
                   BNorm([i \in 1..Len(digits) |-> DigitVal(digits[i])]),
                   BPow10(Max(Len(token) - dot, 0)))

NumberToken(v) == [t |-> "number", v |-> v]

SymbolToken(c) == [t |-> "symbol", v |-> c]

\* the inner while loop popping while the top is an operator of greater or
\* equal precedence
RECURSIVE PopGreaterOrEqual(_, _, _)
PopGreaterOrEqual(output, operators, op1) ==
    IF Len(operators) = 0 THEN [output |-> output, operators |-> operators]
    ELSE LET top == operators[Len(operators)]
         IN  IF top = "(" \/ ~isOperator(top)
             THEN [output |-> output, operators |-> operators]
             ELSE IF precedence(top) >= precedence(op1)
                  THEN PopGreaterOrEqual(Append(output, SymbolToken(top)),
                                         SubSeq(operators, 1, Len(operators) - 1), op1)
                  ELSE [output |-> output, operators |-> operators]

\* the inner while loop of the operator case: pop while the top is an operator
\* of greater precedence
RECURSIVE PopGreater(_, _, _)
PopGreater(output, operators, op1) ==
    IF Len(operators) = 0 THEN [output |-> output, operators |-> operators]
    ELSE LET top == operators[Len(operators)]
         IN  IF top = "(" \/ ~isOperator(top)
             THEN [output |-> output, operators |-> operators]
             ELSE IF precedence(top) > precedence(op1)
                  THEN PopGreater(Append(output, SymbolToken(top)),
                                  SubSeq(operators, 1, Len(operators) - 1), op1)
                  ELSE [output |-> output, operators |-> operators]

\* the while loop of the ")" case without the operators.pop() after it
RECURSIVE PopToParenKept(_, _)
PopToParenKept(output, operators) ==
    IF Len(operators) > 0 /\ operators[Len(operators)] # "("
    THEN PopToParenKept(Append(output, SymbolToken(operators[Len(operators)])),
                        SubSeq(operators, 1, Len(operators) - 1))
    ELSE [output |-> output, operators |-> operators]

\* the while loop of the ")" case, and the operators.pop() after it
RECURSIVE PopToParen(_, _)
PopToParen(output, operators) ==
    IF Len(operators) > 0 /\ operators[Len(operators)] # "("
    THEN PopToParen(Append(output, SymbolToken(operators[Len(operators)])),
                    SubSeq(operators, 1, Len(operators) - 1))
    ELSE [output |-> output,
          operators |-> SubSeq(operators, 1, Len(operators) - 1)]

\* "Add remaining operators" with an if where the code has a while
PopAllOnce(output, operators) ==
    IF Len(operators) = 0 THEN output
    ELSE Append(output, SymbolToken(operators[Len(operators)]))

\* "Add remaining operators"
RECURSIVE PopAll(_, _)
PopAll(output, operators) ==
    IF Len(operators) = 0 THEN output
    ELSE PopAll(Append(output, SymbolToken(operators[Len(operators)])),
                SubSeq(operators, 1, Len(operators) - 1))

\* the token loop of _toReversePolishNotation after i tokens
RECURSIVE ShuntR(_, _)
ShuntR(tokens, i) ==
    IF i = 0 THEN [output |-> <<>>, operators |-> <<>>]
    ELSE LET p == ShuntR(tokens, i - 1)
             token == tokens[i]
         IN  IF isNumber(token)
             THEN [p EXCEPT !.output = Append(@, NumberToken(parseFloat(token)))]
             ELSE IF Len(token) = 1 /\ isOperator(token[1])
             THEN LET q == PopGreater(p.output, p.operators, token[1])
                  IN  [q EXCEPT !.operators = Append(@, token[1])]
             ELSE IF token = <<"(">>
             THEN [p EXCEPT !.operators = Append(@, "(")]
             ELSE IF token = <<")">>
             THEN PopToParen(p.output, p.operators)
             ELSE p

toReversePolishNotation(expression) ==
    LET tokens == tokenizeExpression(expression)
        p == ShuntR(tokens, Len(tokens))
    IN  PopAll(p.output, p.operators)

\* _roundResult
roundResult(number) ==
    IF number.nan THEN NaN
    ELSE LET scaled == BTimesPow10(number.num, MAX_DECIMAL_PLACES)
         IN  IF BLess(scaled, number.den) THEN Zero
             ELSE LET p == BDivMod(scaled, number.den)
                      twice == BMulDigit(p.r, 2)
                      \* Math.round: the nearest integer, a half towards +Infinity
                      up == IF number.neg THEN BLess(number.den, twice)
                            ELSE ~BLess(twice, number.den)
                      rounded == IF up THEN BAdd(p.q, BOne) ELSE p.q
                  IN  Canon(MkNum(number.neg, rounded, BPow10(MAX_DECIMAL_PLACES)))

\* _evaluateRPN with the result of operation.execute(a, b): a and b are popped
\* and a finite result is pushed
PushResult(p, result) ==
    IF ~result.ok THEN [p EXCEPT !.type = result.type]
    \* no model value is +-Infinity: NaN is what is not finite
    ELSE IF result.val.nan THEN [p EXCEPT !.type = SYNTAX_ERROR]
    ELSE [p EXCEPT !.stack = Append(SubSeq(@, 1, Len(@) - 2), result.val)]

\* the token loop of _evaluateRPN on a stack that is a field of the engine,
\* never emptied: it starts with the value that the engine's last direct
\* call left
RECURSIVE EvaluateRKept(_, _)
EvaluateRKept(rpn, i) ==
    IF i = 0
    THEN [type |-> "none", stack |-> IF outcome.ok THEN <<outcome.val>> ELSE <<>>]
    ELSE LET p == EvaluateRKept(rpn, i - 1)
             token == rpn[i]
         IN  IF p.type # "none" THEN p
             ELSE IF token.t = "number"
             THEN [p EXCEPT !.stack = Append(@, token.v)]
             ELSE IF isOperator(token.v)
             THEN IF Len(p.stack) < 2 THEN [p EXCEPT !.type = SYNTAX_ERROR]
                  ELSE LET b == p.stack[Len(p.stack)]
                           a == p.stack[Len(p.stack) - 1]
                       IN  PushResult(p, execute(token.v, a, b))
             ELSE p

\* the token loop of _evaluateRPN after i tokens: the stack, or the error thrown
RECURSIVE EvaluateR(_, _)
EvaluateR(rpn, i) ==
    IF i = 0 THEN [type |-> "none", stack |-> <<>>]
    ELSE LET p == EvaluateR(rpn, i - 1)
             token == rpn[i]
         IN  IF p.type # "none" THEN p
             ELSE IF token.t = "number"
             THEN [p EXCEPT !.stack = Append(@, token.v)]
             ELSE IF isOperator(token.v)
             THEN IF Len(p.stack) < 2 THEN [p EXCEPT !.type = SYNTAX_ERROR]
                  ELSE LET b == p.stack[Len(p.stack)]
                           a == p.stack[Len(p.stack) - 1]
                       IN  PushResult(p, execute(token.v, a, b))
             ELSE p

\* the end of _evaluateRPN returning the top of any stack that is not empty
StackResultTop(p) ==
    IF p.type # "none" THEN Throw(p.type)
    ELSE IF Len(p.stack) = 0 THEN Throw(SYNTAX_ERROR)
    ELSE Return(roundResult(p.stack[Len(p.stack)]))

\* the end of _evaluateRPN, p the outcome of its token loop
StackResult(p) ==
    IF p.type # "none" THEN Throw(p.type)
    ELSE IF Len(p.stack) # 1 THEN Throw(SYNTAX_ERROR)
    ELSE Return(roundResult(p.stack[1]))

evaluateRPN(rpn) == StackResult(EvaluateR(rpn, Len(rpn)))

\* CalculationEngine.calculate(expression) for a string
evaluate(expression) ==
    LET invalid == validateExpression(expression)
    IN  IF invalid # "none" THEN Throw(invalid)
        ELSE evaluateRPN(toReversePolishNotation(expression))

(***************************************************************************)
(* Number.prototype.toString                                               *)
(***************************************************************************)
RECURSIVE NatToString(_)
NatToString(n) ==
    IF n < 10 THEN <<DigitChar(n)>>
    ELSE Append(NatToString(n \div 10), DigitChar(n % 10))

DigitsToString(a) == [i \in 1..Len(a) |-> DigitChar(a[i])]

\* the string of a decimal number in canonical form, as ECMAScript's
\* Number::toString writes it: s the significant digits, n the position of
\* the decimal point after them
toString(x) ==
    IF x.nan THEN <<"N", "a", "N">>
    ELSE IF x.num = <<>> THEN <<"0">>
    ELSE LET s == DigitsToString(StripTrailingZeros(x.num))
             k == Len(s)
             n == Len(x.num) - (Len(x.den) - 1)
             sign == IF x.neg THEN <<"-">> ELSE <<>>
             body ==
                 IF k <= n /\ n <= 21 THEN s \o [i \in 1..(n - k) |-> "0"]
                 ELSE IF 0 < n /\ n <= 21
                 THEN SubSeq(s, 1, n) \o <<".">> \o SubSeq(s, n + 1, k)
                 ELSE IF -6 < n /\ n <= 0
                 THEN <<"0", ".">> \o [i \in 1..(-n) |-> "0"] \o s
                 ELSE (IF k = 1 THEN s ELSE <<s[1], ".">> \o SubSeq(s, 2, k))
                      \o <<"e", IF n - 1 < 0 THEN "-" ELSE "+">>
                      \o NatToString(IF n - 1 < 0 THEN 1 - n ELSE n - 1)
         IN  sign \o body

(***************************************************************************)
(* 7. CalculatorState                                                      *)
(***************************************************************************)
VARIABLES
    currentInput,        \* the display string
    previousInput,       \* the left operand, "" when there is none
    operator,            \* the pending operator, or NULL
    shouldResetDisplay,  \* the next digit starts a new number
    history,             \* the last calculations, oldest first
    lastCalculation,     \* NoCalculation or {expression, result}
    now,                 \* the clock new Date() reads
    thrown,              \* what the last call threw to its caller: "none" or the error's type
    keyed,               \* the chain of keys the controller has passed on
    handed,              \* the lists getHistory() has returned, as their callers see them
    timers,              \* the timeouts of handleError that are pending
    run,                 \* a call of the engine followed loop iteration by loop iteration
    page,                \* the document, initCalculator's instance and what it has constructed
    scroll               \* the window's scroll position and the ScrollManager behind its throttle

vars ==
    <<currentInput, previousInput, operator, shouldResetDisplay, history,
      lastCalculation, now, thrown, keyed, handed, timers,
      argument, outcome, answers, run, page, scroll>>

NULL == "null"

\* lastCalculation while it is null
NoCalculation == [null |-> TRUE]

\* the fields of the CalculatorState object, with the clock
State ==
    [currentInput |-> currentInput, previousInput |-> previousInput,
     operator |-> operator, shouldResetDisplay |-> shouldResetDisplay,
     history |-> history, lastCalculation |-> lastCalculation, now |-> now,
     thrown |-> "none"]

\* reset() without "this.history = []"
resetKeepsHistory(st) ==
    [st EXCEPT !.currentInput = DEFAULT_DISPLAY_VALUE, !.previousInput = <<>>,
               !.operator = NULL, !.shouldResetDisplay = FALSE,
               !.lastCalculation = NoCalculation]

\* reset() without "this.lastCalculation = null"
resetKeepsLast(st) ==
    [st EXCEPT !.currentInput = DEFAULT_DISPLAY_VALUE, !.previousInput = <<>>,
               !.operator = NULL, !.shouldResetDisplay = FALSE,
               !.history = <<>>]

\* reset(), which the constructor and clear() call
reset(st) ==
    [st EXCEPT !.currentInput = DEFAULT_DISPLAY_VALUE, !.previousInput = <<>>,
               !.operator = NULL, !.shouldResetDisplay = FALSE,
               !.history = <<>>, !.lastCalculation = NoCalculation]

includes(s, c) == \E i \in 1..Len(s) : s[i] = c

\* updateInput without "if (this.currentInput.includes('.')) return"
updateInputAnyPoint(st, value) ==
    IF value = DECIMAL
    THEN [st EXCEPT !.currentInput = Append(@, ".")]
    ELSE IF st.currentInput = DEFAULT_DISPLAY_VALUE \/ st.shouldResetDisplay
    THEN [st EXCEPT !.currentInput = <<value>>, !.shouldResetDisplay = FALSE]
    ELSE IF Len(st.currentInput) < MAX_DISPLAY_LENGTH
    THEN [st EXCEPT !.currentInput = Append(@, value)]
    ELSE st

updateInput(st, value) ==
    IF value = DECIMAL
    THEN IF includes(st.currentInput, ".") THEN st
         ELSE [st EXCEPT !.currentInput = Append(@, ".")]
    ELSE IF st.currentInput = DEFAULT_DISPLAY_VALUE \/ st.shouldResetDisplay
    THEN [st EXCEPT !.currentInput = <<value>>, !.shouldResetDisplay = FALSE]
    ELSE IF Len(st.currentInput) < MAX_DISPLAY_LENGTH
    THEN [st EXCEPT !.currentInput = Append(@, value)]
    ELSE st

\* push, then pop() where the code calls shift(): the newest entry is dropped
pushHistoryPop(h, entry) ==
    LET pushed == Append(h, entry)
    IN  IF Len(pushed) > HISTORY_LIMIT THEN SubSeq(pushed, 1, HISTORY_LIMIT)
        ELSE pushed

\* the history after push and the shift that keeps the last ten
pushHistory(h, entry) ==
    LET pushed == Append(h, entry)
    IN  IF Len(pushed) > HISTORY_LIMIT THEN Tail(pushed) ELSE pushed

\* calculate() with a catch block that leaves shouldResetDisplay as it was
CalculatedNoReset(st, expression, result) ==
    IF result.ok
    THEN [st EXCEPT
            !.history = pushHistory(@, [expression |-> expression,
                                        result |-> result.val,
                                        timestamp |-> st.now + 1]),
            !.now = @ + 1,
            !.lastCalculation = [expression |-> expression, result |-> result.val],
            !.currentInput = toString(result.val),
            !.operator = NULL,
            !.previousInput = <<>>,
            !.shouldResetDisplay = TRUE]
    ELSE [st EXCEPT
            !.currentInput = ERROR_MESSAGE,
            !.operator = NULL,
            !.previousInput = <<>>,
            !.thrown = result.type]

\* calculate() with a catch block that does not throw the error again
CalculatedSwallows(st, expression, result) ==
    IF result.ok
    THEN [st EXCEPT
            !.history = pushHistory(@, [expression |-> expression,
                                        result |-> result.val,
                                        timestamp |-> st.now + 1]),
            !.now = @ + 1,
            !.lastCalculation = [expression |-> expression, result |-> result.val],
            !.currentInput = toString(result.val),
            !.operator = NULL,
            !.previousInput = <<>>,
            !.shouldResetDisplay = TRUE]
    ELSE [st EXCEPT
            !.currentInput = ERROR_MESSAGE,
            !.operator = NULL,
            !.previousInput = <<>>,
            !.shouldResetDisplay = TRUE]

\* the try block of calculate() once the engine has returned or thrown result
Calculated(st, expression, result) ==
    IF result.ok
    THEN [st EXCEPT
            !.history = pushHistory(@, [expression |-> expression,
                                        result |-> result.val,
                                        timestamp |-> st.now + 1]),
            !.now = @ + 1,
            !.lastCalculation = [expression |-> expression, result |-> result.val],
            !.currentInput = toString(result.val),
            !.operator = NULL,
            !.previousInput = <<>>,
            !.shouldResetDisplay = TRUE]
    ELSE [st EXCEPT
            !.currentInput = ERROR_MESSAGE,
            !.operator = NULL,
            !.previousInput = <<>>,
            !.shouldResetDisplay = TRUE,
            !.thrown = result.type]

\* calculate() building its expression from currentInput first
calculateSwapped(st) ==
    IF st.operator = NULL \/ st.previousInput = <<>> THEN st
    ELSE LET expression == st.currentInput \o <<st.operator>> \o st.previousInput
         IN  Calculated(st, expression, evaluate(expression))

\* calculate() without its first "if (...) return"
calculateUnguarded(st) ==
    LET expression == st.previousInput \o <<st.operator>> \o st.currentInput
    IN  Calculated(st, expression, evaluate(expression))

calculate(st) ==
    IF st.operator = NULL \/ st.previousInput = <<>> THEN st
    ELSE LET expression == st.previousInput \o <<st.operator>> \o st.currentInput
         IN  Calculated(st, expression, evaluate(expression))

\* the assignments of applyOperator made whether or not calculate() has thrown
OperatorSetAnyway(c, op) ==
    [c EXCEPT !.previousInput = c.currentInput, !.operator = op,
              !.shouldResetDisplay = TRUE]

\* the assignments of applyOperator without "this.previousInput = this.currentInput"
OperatorSetNoOperand(c, op) ==
    IF c.thrown # "none" THEN c
    ELSE [c EXCEPT !.operator = op, !.shouldResetDisplay = TRUE]

\* the assignments of applyOperator, reached when calculate() has not thrown
OperatorSet(c, op) ==
    IF c.thrown # "none" THEN c
    ELSE [c EXCEPT !.previousInput = c.currentInput, !.operator = op,
                   !.shouldResetDisplay = TRUE]

\* applyOperator evaluating whenever an operator is pending
applyOperatorEager(st, op) ==
    OperatorSet(IF st.operator # NULL THEN calculate(st) ELSE st, op)

applyOperator(st, op) ==
    OperatorSet(IF st.operator # NULL /\ ~st.shouldResetDisplay THEN calculate(st)
                ELSE st, op)

\* backspace without the else branch: the last character is always cut off
backspaceToEmpty(st) ==
    [st EXCEPT !.currentInput = SubSeq(@, 1, Len(@) - 1)]

backspace(st) ==
    IF Len(st.currentInput) > 1
    THEN [st EXCEPT !.currentInput = SubSeq(@, 1, Len(@) - 1)]
    ELSE [st EXCEPT !.currentInput = DEFAULT_DISPLAY_VALUE]

clear(st) == reset(st)

getDisplayValue == currentInput

getHistory == history

getLastCalculation == lastCalculation

\* the call returns, leaving the object in state st
Returns(after) ==
    \E st \in {after} :
    /\ currentInput' = st.currentInput
    /\ previousInput' = st.previousInput
    /\ operator' = st.operator
    /\ shouldResetDisplay' = st.shouldResetDisplay
    /\ history' = st.history
    /\ lastCalculation' = st.lastCalculation
    /\ now' = st.now
    /\ thrown' = st.thrown
    /\ UNCHANGED <<handed, argument, outcome, answers, run, page, scroll>>

\* the call returns and no timeout is set or fires
Becomes(after) ==
    /\ Returns(after)
    /\ UNCHANGED timers

(***************************************************************************)
(* The keys the controller passes on.  keyed is the text keyed since the   *)
(* calculator was constructed, cleared or answered '=', as long as it is a *)
(* chain of whole numbers separated by single operators: 3, 3+, 3+4, 3+4*. *)
(* Any other key sequence, a digit after a lone 0 and a digit the display  *)
(* has no room for leave it Untracked.                                     *)
(***************************************************************************)
Untracked == <<"?">>

Keyed(k, key) ==
    IF k = Untracked THEN Untracked
    ELSE IF IsDigit(key)
    THEN IF \/ k # <<>> /\ IsDigit(k[Len(k)]) /\ currentInput = DEFAULT_DISPLAY_VALUE
            \/ /\ currentInput # DEFAULT_DISPLAY_VALUE
               /\ ~shouldResetDisplay
               /\ Len(currentInput) >= MAX_DISPLAY_LENGTH
         THEN Untracked
         ELSE Append(k, key)
    ELSE IF isOperator(key) /\ k # <<>> /\ IsDigit(k[Len(k)])
    THEN Append(k, key)
    ELSE Untracked

\* handleNumberInput and handleDecimalInput
UpdateInput(value) ==
    /\ Becomes(updateInput(State, value))
    /\ keyed' = Keyed(keyed, value)

\* handleOperatorInput
ApplyOperator(op) ==
    /\ Becomes(applyOperator(State, op))
    /\ keyed' = IF thrown' = "none" THEN Keyed(keyed, op) ELSE Untracked

\* handleEquals
Calculate ==
    /\ Becomes(calculate(State))
    /\ keyed' = IF operator = NULL \/ previousInput = <<>> THEN Untracked ELSE <<>>

\* handleBackspace
Backspace ==
    /\ Becomes(backspace(State))
    /\ keyed' = Untracked

\* handleClear, and the clear() that handleError schedules
Clear ==
    /\ Becomes(clear(State))
    /\ keyed' = <<>>

(***************************************************************************)
(* The handlers of the controller with the timeouts of handleError: a      *)
(* handler whose call of the state throws passes the error to handleError, *)
(* which sets a timeout of 2000 ms; nothing clears a timeout.  The         *)
(* actions above leave timers alone: there the clear() of a timeout is the *)
(* action Clear, taken at any time.                                        *)
(***************************************************************************)
\* handleError(error), if the try block of the handler threw: one more timeout
handleError(pending, type) == IF type # "none" THEN pending + 1 ELSE pending

HandleNumberInput(value) ==
    /\ Returns(updateInput(State, value))
    /\ keyed' = Keyed(keyed, value)
    /\ timers' = handleError(timers, thrown')

HandleOperatorInput(op) ==
    /\ Returns(applyOperator(State, op))
    /\ keyed' = IF thrown' = "none" THEN Keyed(keyed, op) ELSE Untracked
    /\ timers' = handleError(timers, thrown')

HandleEquals ==
    /\ Returns(calculate(State))
    /\ keyed' = IF operator = NULL \/ previousInput = <<>> THEN Untracked ELSE <<>>
    /\ timers' = handleError(timers, thrown')

HandleBackspace ==
    /\ Returns(backspace(State))
    /\ keyed' = Untracked
    /\ UNCHANGED timers

\* handleClear calling clearTimeout on every pending timeout
HandleClearCancels ==
    /\ Returns(clear(State))
    /\ keyed' = <<>>
    /\ timers' = 0

HandleClear ==
    /\ Returns(clear(State))
    /\ keyed' = <<>>
    /\ UNCHANGED timers

\* the callback of a timeout of handleError runs
TimerFires ==
    /\ timers > 0
    /\ Returns(clear(State))
    /\ keyed' = <<>>
    /\ timers' = timers - 1

(***************************************************************************)
(* A caller of getHistory().  The array it is handed is a new one, the     *)
(* entries in it are the objects this.history holds.  An entry object is   *)
(* told apart by the clock reading of its creation, which the caller       *)
(* leaves alone.                                                           *)
(***************************************************************************)
SameObject(e, f) == e.timestamp = f.timestamp

\* list after "entry.expression = text": every place that holds the object shows it
Written(list, entry, text) ==
    [j \in 1..Len(list) |->
        IF SameObject(list[j], entry) THEN [list[j] EXCEPT !.expression = text]
        ELSE list[j]]

\* an object of the caller's own
Foreign == [expression |-> <<"x">>, result |-> NaN, timestamp |-> 0]

\* list = state.getHistory()
GetHistory ==
    /\ handed' = Append(handed, getHistory)
    /\ UNCHANGED <<currentInput, previousInput, operator, shouldResetDisplay,
                   history, lastCalculation, now, thrown, keyed, timers,
                   argument, outcome, answers, run, page, scroll>>

\* list.push(entry) on the k-th list handed out
CallerPush(k, entry) ==
    /\ handed' = [handed EXCEPT ![k] = Append(@, entry)]
    /\ UNCHANGED <<currentInput, previousInput, operator, shouldResetDisplay,
                   history, lastCalculation, now, thrown, keyed, timers,
                   argument, outcome, answers, run, page, scroll>>

\* list.pop()
CallerPop(k) ==
    /\ handed[k] # <<>>
    /\ handed' = [handed EXCEPT ![k] = SubSeq(@, 1, Len(@) - 1)]
    /\ UNCHANGED <<currentInput, previousInput, operator, shouldResetDisplay,
                   history, lastCalculation, now, thrown, keyed, timers,
                   argument, outcome, answers, run, page, scroll>>

\* list[i].expression = text
CallerWrites(k, i, text) ==
    /\ handed' = [m \in 1..Len(handed) |-> Written(handed[m], handed[k][i], text)]
    /\ history' = Written(history, handed[k][i], text)
    /\ UNCHANGED <<currentInput, previousInput, operator, shouldResetDisplay,
                   lastCalculation, now, thrown, keyed, timers,
                   argument, outcome, answers, run, page, scroll>>

(***************************************************************************)
(* Direct calls of CalculationEngine.calculate.  An argument is a          *)
(* JavaScript value: its typeof and, for a string, its characters.         *)
(***************************************************************************)
StringValue(s) == [typeof |-> "string", chars |-> s]

\* values that are not strings: a number, undefined, null, an array
NonStrings ==
    {[typeof |-> t, chars |-> <<>>] : t \in {"number", "undefined", "object"}}

NoArgument == [typeof |-> "none", chars |-> <<>>]

NotCalled == [ok |-> FALSE, val |-> NaN, type |-> "not called"]

\* CalculationEngine.calculate(expression) for any value
engineCalculate(value) ==
    IF value.typeof # "string" THEN Throw(INVALID_INPUT)
    ELSE evaluate(value.chars)

\* a caller passes value to an engine and sees what it returns or throws
EngineCalculate(value) ==
    /\ argument' = value
    /\ outcome' = engineCalculate(value)
    /\ answers' = Append(answers, [argument |-> value, outcome |-> outcome'])
    /\ UNCHANGED <<currentInput, previousInput, operator, shouldResetDisplay,
                   history, lastCalculation, now, thrown, keyed, handed, timers, run, page, scroll>>

(***************************************************************************)
(* CalculationEngine.calculate on a string, one loop iteration a step.     *)
(* run holds the locals of the call: the loop it is in, the index i of     *)
(* that loop, balance, tokens, currentNumber, output, operators and stack, *)
(* the type of the error a loop has thrown and the number of iterations    *)
(* each loop has made.                                                     *)
(***************************************************************************)
Loops == {"balance", "tokenize", "token", "popGreater", "popToParen", "drain", "rpn"}

\* no call has been made
Idle ==
    [phase |-> "idle", expression |-> <<>>, i |-> 0, balance |-> 0,
     tokens |-> <<>>, currentNumber |-> <<>>, output |-> <<>>, operators |-> <<>>,
     stack |-> <<>>, steps |-> [l \in Loops |-> 0], type |-> "none"]

\* the call has left its loops: one of them threw an error of this type, or
\* ("none") the token loop of _evaluateRPN came to its end
Done(r, type) == [r EXCEPT !.phase = "done", !.type = type]

Finish(r) == Done(r, "none")

\* what a call that has left its loops throws or returns: the end of
\* _evaluateRPN, after its token loop
returned(r) == StackResult([type |-> r.type, stack |-> r.stack])

\* _evaluateRPN(rpn) is entered
EnterRpn(r) ==
    IF Len(r.output) = 0 THEN Finish(r) ELSE [r EXCEPT !.phase = "rpn", !.i = 1]

\* the token loop of _toReversePolishNotation is left
EnterDrain(r) ==
    IF Len(r.operators) = 0 THEN EnterRpn(r) ELSE [r EXCEPT !.phase = "drain"]

\* the next token of "for (const token of tokens)"
NextToken(r) ==
    IF r.i + 1 > Len(r.tokens) THEN EnterDrain(r)
    ELSE [r EXCEPT !.phase = "token", !.i = @ + 1]

\* the next token of "for (const token of rpn)"
NextRpn(r) ==
    IF r.i + 1 > Len(r.output) THEN Finish(r) ELSE [r EXCEPT !.i = @ + 1]

\* the checks of _validateExpression that precede its loop, and the loop entered
start(expression) ==
    LET r == [Idle EXCEPT !.expression = expression, !.i = 1]
        lower == LowerString(expression)
    IN  IF Len(expression) = 0 THEN Done(r, INVALID_INPUT)
        ELSE IF \/ \E p \in dangerousPatterns : HasSubstring(lower, p)
                \/ HasNewFunction(lower)
        THEN Done(r, INVALID_INPUT)
        ELSE IF \E i \in 1..Len(expression) : expression[i] \notin ValidChars
        THEN Done(r, INVALID_INPUT)
        ELSE [r EXCEPT !.phase = "balance"]

\* one iteration of "for (const char of expression)" in _validateExpression
balanceStep(r) ==
    LET char == r.expression[r.i]
        b == IF char = "(" THEN r.balance + 1
             ELSE IF char = ")" THEN r.balance - 1
             ELSE r.balance
        counted == [r EXCEPT !.balance = b]
    IN  IF b < 0 THEN Done(counted, SYNTAX_ERROR)
        ELSE IF r.i + 1 <= Len(r.expression) THEN [counted EXCEPT !.i = @ + 1]
        ELSE IF b # 0 THEN Done(counted, SYNTAX_ERROR)
        ELSE [counted EXCEPT !.phase = "tokenize", !.i = 1]

\* one iteration of the loop of _tokenizeExpression
tokenizeStep(r) ==
    LET char == r.expression[r.i]
        flushed == IF r.currentNumber # <<>> THEN Append(r.tokens, r.currentNumber)
                   ELSE r.tokens
        p == IF IsDigit(char) \/ char = "."
             THEN [r EXCEPT !.currentNumber = Append(@, char)]
             ELSE [r EXCEPT !.tokens = IF char # " " THEN Append(flushed, <<char>>)
                                        ELSE flushed,
                            !.currentNumber = <<>>]
    IN  IF r.i + 1 <= Len(r.expression) THEN [p EXCEPT !.i = @ + 1]
        ELSE NextToken([p EXCEPT !.tokens = IF p.currentNumber # <<>>
                                             THEN Append(@, p.currentNumber) ELSE @,
                                 !.i = 0])

\* the condition under which the inner while loop of an operator token pops
TopGreater(operators, op1) ==
    /\ Len(operators) > 0
    /\ operators[Len(operators)] # "("
    /\ isOperator(operators[Len(operators)])
    /\ precedence(operators[Len(operators)]) > precedence(op1)

\* the condition of the while loop of ")"
TopNotParen(operators) ==
    Len(operators) > 0 /\ operators[Len(operators)] # "("

\* output.push(operators.pop())
Pop(r) ==
    [r EXCEPT !.output = Append(@, SymbolToken(r.operators[Len(r.operators)])),
              !.operators = SubSeq(@, 1, Len(@) - 1)]

\* operators.push(token) after the inner while loop
PushOperator(r) == NextToken([r EXCEPT !.operators = Append(@, r.tokens[r.i][1])])

\* operators.pop() after the while loop of ")"
DropParen(r) == NextToken([r EXCEPT !.operators = SubSeq(@, 1, Len(@) - 1)])

\* one iteration of "for (const token of tokens)", up to an inner loop that pops
tokenStep(r) ==
    LET token == r.tokens[r.i]
    IN  IF isNumber(token)
        THEN NextToken([r EXCEPT !.output = Append(@, NumberToken(parseFloat(token)))])
        ELSE IF Len(token) = 1 /\ isOperator(token[1])
        THEN IF TopGreater(r.operators, token[1]) THEN [r EXCEPT !.phase = "popGreater"]
             ELSE PushOperator(r)
        ELSE IF token = <<"(">>
        THEN NextToken([r EXCEPT !.operators = Append(@, "(")])
        ELSE IF token = <<")">>
        THEN IF TopNotParen(r.operators) THEN [r EXCEPT !.phase = "popToParen"]
             ELSE DropParen(r)
        ELSE NextToken(r)

\* an iteration of the inner while loop that pushes the top to the output and
\* leaves it on the operators
popGreaterStepKept(r) ==
    [r EXCEPT !.output = Append(@, SymbolToken(r.operators[Len(r.operators)]))]

\* one popping iteration of the inner while loop of an operator token
popGreaterStep(r) ==
    LET p == Pop(r)
    IN  IF TopGreater(p.operators, r.tokens[r.i][1]) THEN p ELSE PushOperator(p)

\* one iteration of the while loop of ")"
popToParenStep(r) ==
    LET p == Pop(r)
    IN  IF TopNotParen(p.operators) THEN p ELSE DropParen(p)

\* one iteration of "Add remaining operators"
drainStep(r) ==
    LET p == Pop(r)
    IN  IF Len(p.operators) = 0 THEN EnterRpn(p) ELSE p

\* one iteration of "for (const token of rpn)"
rpnStep(r) ==
    LET token == r.output[r.i]
    IN  IF token.t = "number" THEN NextRpn([r EXCEPT !.stack = Append(@, token.v)])
        ELSE IF isOperator(token.v)
        THEN IF Len(r.stack) < 2 THEN Done(r, SYNTAX_ERROR)
             ELSE LET b == r.stack[Len(r.stack)]
                      a == r.stack[Len(r.stack) - 1]
                      p == PushResult([type |-> "none", stack |-> r.stack],
                                      execute(token.v, a, b))
                  IN  IF p.type # "none" THEN Done(r, p.type)
                      ELSE NextRpn([r EXCEPT !.stack = p.stack])
        ELSE NextRpn(r)

\* the iteration the call makes next, counted
step(r) ==
    LET after == CASE r.phase = "balance" -> balanceStep(r)
                   [] r.phase = "tokenize" -> tokenizeStep(r)
                   [] r.phase = "token" -> tokenStep(r)
                   [] r.phase = "popGreater" -> popGreaterStep(r)
                   [] r.phase = "popToParen" -> popToParenStep(r)
                   [] r.phase = "drain" -> drainStep(r)
                   [] r.phase = "rpn" -> rpnStep(r)
    IN  [after EXCEPT !.steps[r.phase] = @ + 1]

\* engine.calculate(expression) is called
EngineStart(expression) ==
    /\ run' = start(expression)
    /\ UNCHANGED <<currentInput, previousInput, operator, shouldResetDisplay,
                   history, lastCalculation, now, thrown, keyed, handed, timers,
                   argument, outcome, answers, page, scroll>>

\* the call makes one more loop iteration
EngineStep ==
    /\ run.phase \in Loops
    /\ run' = step(run)
    /\ UNCHANGED <<currentInput, previousInput, operator, shouldResetDisplay,
                   history, lastCalculation, now, thrown, keyed, handed, timers,
                   argument, outcome, answers, page, scroll>>

(***************************************************************************)
(* 9. Public API and initialization (calculator.js)                        *)
(*                                                                         *)
(* page.calculatorInstance is the ordinal of the controller the module     *)
(* variable holds, 0 for null; page.controllers counts the constructors    *)
(* that completed, page.listeners the click/keydown pairs they bound on    *)
(* the document, page.waiting the DOMContentLoaded listeners registered,   *)
(* page.scheduled tells that the automatic call is still due and           *)
(* page.returned is what the last call of initCalculator returned.         *)
(***************************************************************************)
\* the page when the script has run: let calculatorInstance = null, the call scheduled
Loading ==
    [readyState |-> "loading", calculatorInstance |-> 0, controllers |-> 0,
     listeners |-> 0, waiting |-> 0, scheduled |-> TRUE, returned |-> 0]

\* new CalculatorUIController(): initialize() binds one click and one keydown listener
CalculatorUIController(p) ==
    [p EXCEPT !.controllers = @ + 1, !.listeners = @ + 1,
              !.calculatorInstance = p.controllers + 1]

\* initCalculator(); display tells whether getElementById('display') finds the element
initCalculator(p, display) ==
    IF p.calculatorInstance # 0
    THEN [p EXCEPT !.returned = p.calculatorInstance]
    ELSE IF p.readyState = "loading"
         THEN [p EXCEPT !.waiting = @ + 1, !.returned = 0]
         ELSE IF display
              THEN LET q == CalculatorUIController(p)
                   IN  [q EXCEPT !.returned = q.calculatorInstance]
              ELSE [p EXCEPT !.returned = 0]   \* cacheDomElements threw: return null

RECURSIVE Listeners(_, _)
\* the DOMContentLoaded listeners run, one after the other
Listeners(p, display) ==
    IF p.waiting = 0 THEN p
    ELSE LET q == [p EXCEPT !.waiting = @ - 1]
         IN  Listeners(IF display THEN CalculatorUIController(q) ELSE q, display)

\* the document has been parsed
domContentLoaded(p, display) ==
    Listeners([p EXCEPT !.readyState = "interactive"], display)

\* a step of the page leaves the calculator and the scroll manager alone
OnPage(after) ==
    /\ page' = after
    /\ UNCHANGED <<currentInput, previousInput, operator, shouldResetDisplay,
                   history, lastCalculation, now, thrown, keyed, handed, timers,
                   argument, outcome, answers, run, scroll>>

\* OnionForgeCalculator.init() is called by a script of the page
InitCall(display) == OnPage(initCalculator(page, display))

\* the timeout of the automatic initialization fires
AutoInitialize(display) ==
    /\ page.scheduled
    /\ OnPage(initCalculator([page EXCEPT !.scheduled = FALSE], display))

\* the browser fires DOMContentLoaded
DOMContentLoaded(display) ==
    /\ page.readyState = "loading"
    /\ OnPage(domContentLoaded(page, display))

(***************************************************************************)
(* ScrollManager behind Utils.throttle (main.js)                           *)
(*                                                                         *)
(* scroll.pageYOffset is the window's scroll position; scroll.inThrottle   *)
(* is the flag of the throttled listener, set exactly while its timeout    *)
(* is pending; the other fields are the ScrollManager's.  The page has a   *)
(* .site-header element.                                                   *)
(***************************************************************************)
SCROLL_THRESHOLD == 100

\* the ScrollManager as its constructor leaves it, the window at the top
AtTop ==
    [pageYOffset |-> 0, inThrottle |-> FALSE, lastScrollPosition |-> 0,
     scrollDirection |-> "down", headerVisible |-> TRUE]

updateHeaderVisibility(s) ==
    LET shouldHide == s.scrollDirection = "down" /\ s.pageYOffset > SCROLL_THRESHOLD
    IN  IF shouldHide # ~s.headerVisible
        THEN [s EXCEPT !.headerVisible = ~shouldHide]
        ELSE s

handleScroll(s) ==
    LET currentScroll == s.pageYOffset
    IN  updateHeaderVisibility(
            [s EXCEPT !.scrollDirection =
                          IF currentScroll > s.lastScrollPosition THEN "down" ELSE "up",
                      !.lastScrollPosition = currentScroll])

\* a throttle that runs func on every call
throttleEvery(s) ==
    [handleScroll(s) EXCEPT !.inThrottle = TRUE]

\* the function Utils.throttle returns, called on a scroll event
throttle(s) ==
    IF ~s.inThrottle
    THEN [handleScroll(s) EXCEPT !.inThrottle = TRUE]
    ELSE s

\* the step leaves the calculator and its page alone
Scrolled(after) ==
    /\ scroll' = after
    /\ UNCHANGED <<currentInput, previousInput, operator, shouldResetDisplay,
                   history, lastCalculation, now, thrown, keyed, handed, timers,
                   argument, outcome, answers, run, page>>

\* the window scrolls to position y and the scroll event reaches the listener
Scroll(y) ==
    /\ y # scroll.pageYOffset
    /\ Scrolled(throttle([scroll EXCEPT !.pageYOffset = y]))

\* the timeout of the throttle fires: inThrottle = false
ThrottleTimeout ==
    /\ scroll.inThrottle
    /\ Scrolled([scroll EXCEPT !.inThrottle = FALSE])

\* a CalculatorState as its constructor leaves it, the clock at 0, on the page as its scripts leave it
Init == 
    /\ currentInput = DEFAULT_DISPLAY_VALUE
    /\ previousInput = <<>>
    /\ operator = NULL
    /\ shouldResetDisplay = FALSE
    /\ history = <<>>
    /\ lastCalculation = NoCalculation
    /\ now = 0
    /\ thrown = "none"
    /\ keyed = <<>>
    /\ handed = <<>>
    /\ timers = 0
    /\ run = Idle
    /\ argument = NoArgument
    /\ outcome = NotCalled
    /\ answers = <<>>
    /\ page = Loading
    /\ scroll = AtTop

(***************************************************************************)
(* The user: any key at any time, within the bounds                        *)
(***************************************************************************)
\* the digit keys pressed
Digits == {"3"}

\* digits are appended to an operand of fewer than MaxTyped characters
MaxTyped == 1

\* operators and '=' are keyed while the clock is below MaxClock
MaxClock == 2

\* the next digit replaces the display
StartsOperand == currentInput = DEFAULT_DISPLAY_VALUE \/ shouldResetDisplay

\* a digit starts an operand or follows fewer than limit characters
CanType(limit) == StartsOperand \/ Len(currentInput) < limit

Next ==
    \/ \E value \in Digits : CanType(MaxTyped) /\ UpdateInput(value)
    \/ UpdateInput(DECIMAL)
    \/ \E op \in OPERATORS : now < MaxClock /\ ApplyOperator(op)
    \/ now < MaxClock /\ Calculate
    \/ Backspace
    \/ Clear

Spec == Init /\ [][Next]_vars

(***************************************************************************)
(* The user keying chains of one-digit operands: digits, operators, '='    *)
(* and clear                                                               *)
(***************************************************************************)
ChainDigits == {"2", "3", "4"}

ChainOperators == {"+", "-", "*", "/"}

ChainTyped == 1

ChainClock == 2

NextChain ==
    \/ \E value \in ChainDigits : CanType(ChainTyped) /\ UpdateInput(value)
    \/ \E op \in ChainOperators : now < ChainClock /\ ApplyOperator(op)
    \/ now < ChainClock /\ Calculate
    \/ Clear

SpecChain == Init /\ [][NextChain]_vars

(***************************************************************************)
(* The user dividing by one-digit operands, often enough to fill the       *)
(* history                                                                 *)
(***************************************************************************)
HistoryDigits == {"1"}

HistoryOperators == {"/"}

HistoryClock == 12

NextHistory ==
    \/ \E value \in HistoryDigits : StartsOperand /\ UpdateInput(value)
    \/ \E op \in HistoryOperators : now < HistoryClock /\ ApplyOperator(op)
    \/ now < HistoryClock /\ Calculate
    \/ Clear

SpecHistory == Init /\ [][NextHistory]_vars

(***************************************************************************)
(* The user keying A op B '=' with one-digit operands, and carrying the    *)
(* result on                                                               *)
(***************************************************************************)
OperandDigits == {"2", "7"}

OperandOperators == {"+", "-", "*", "/"}

OperandClock == 2

NextOperands ==
    \/ \E value \in OperandDigits : StartsOperand /\ UpdateInput(value)
    \/ \E op \in OperandOperators : now < OperandClock /\ ApplyOperator(op)
    \/ now < OperandClock /\ Calculate
    \/ Clear

SpecOperands == Init /\ [][NextOperands]_vars

(***************************************************************************)
(* The user typing one long number                                         *)
(***************************************************************************)
TypingDigits == {"1"}

NextTyping ==
    \/ \E value \in TypingDigits : UpdateInput(value)
    \/ UpdateInput(DECIMAL)
    \/ Backspace
    \/ Clear

SpecTyping == Init /\ [][NextTyping]_vars

(***************************************************************************)
(* A caller of the engine: one call, its argument any short text, a chain  *)
(* or a parenthesised expression of one-digit operands, a text of the      *)
(* deny list, or a value that is no string                                 *)
(***************************************************************************)
EngineAlphabet == {"0", "1", "2", ".", "+", "/", "(", ")", " ", TAB, "a"}

MaxLength == 4

\* the texts of at most n characters
Texts(n) == UNION {[1..k -> EngineAlphabet] : k \in 0..n}

TermDigits == {"0", "1", "2", "3", "4", "8"}

\* a op1 b op2 c
Chains ==
    {<<a, op1, b, op2, c>> : a \in TermDigits, op1 \in OPERATORS,
                              b \in TermDigits, op2 \in OPERATORS, c \in TermDigits}

\* (a op1 b) op2 c
LeftGroups ==
    {<<"(", a, op1, b, ")", op2, c>> :
        a \in TermDigits, op1 \in OPERATORS, b \in TermDigits,
        op2 \in OPERATORS, c \in TermDigits}

\* a op1 (b op2 c)
RightGroups ==
    {<<a, op1, "(", b, op2, c, ")">> :
        a \in TermDigits, op1 \in OPERATORS, b \in TermDigits,
        op2 \in OPERATORS, c \in TermDigits}

\* texts a deny-list pattern matches, in either case, alone and after "("
DenyListed ==
    { <<"e", "v", "a", "l", "(", "1", ")">>,
      <<"E", "V", "A", "L", "(", "1", ")">>,
      <<"(", "E", "v", "a", "l", "(", "1", ")">>,
      <<"f", "u", "n", "c", "t", "i", "o", "n", "(", ")">>,
      <<"n", "e", "w", " ", "F", "u", "n", "c", "t", "i", "o", "n">>,
      <<"N", "E", "W", " ", TAB, "f", "u", "n", "c", "t", "i", "o", "n">>,
      <<"1", ".", "c", "o", "n", "s", "t", "r", "u", "c", "t", "o", "r">>,
      <<"_", "_", "p", "r", "o", "t", "o", "_", "_">>,
      <<"p", "r", "o", "c", "e", "s", "s", ".">>,
      <<"r", "e", "q", "u", "i", "r", "e", "(", "1", ")">>,
      <<"(", "I", "m", "p", "o", "r", "t", "(">> }

\* texts with a numeric run of two decimal points
TwoPoints ==
    { <<"1", ".", "2", ".", "3">>,
      <<"1", ".", "2", ".", "3", " ", "4">>,
      <<"4", "(", "1", ".", "2", ".", "3", ")">> }

EngineArguments ==
    {StringValue(s) : s \in Texts(MaxLength) \cup Chains \cup LeftGroups
                              \cup RightGroups \cup DenyListed \cup TwoPoints}
        \cup NonStrings

NextEngine ==
    /\ outcome = NotCalled
    /\ \E value \in EngineArguments : EngineCalculate(value)

SpecEngine == Init /\ [][NextEngine]_vars

(***************************************************************************)
(* The user dividing by zero and clearing, and a caller of the engine      *)
(* dividing by a zero written out or computed                              *)
(***************************************************************************)
ZeroDigits == {"0", "1"}

ZeroOperators == {"/", "%"}

ZeroClock == 2

\* a op b and a op (b - c)
ZeroArguments ==
    {StringValue(<<"1", op, b>>) : op \in ZeroOperators, b \in {"0", "2"}}
        \cup {StringValue(<<"1", op, "(", "2", "-", c, ")">>) :
                  op \in ZeroOperators, c \in {"1", "2"}}

NextZero ==
    \/ \E value \in ZeroDigits : StartsOperand /\ UpdateInput(value)
    \/ \E op \in ZeroOperators : now < ZeroClock /\ ApplyOperator(op)
    \/ now < ZeroClock /\ Calculate
    \/ Clear
    \/ outcome = NotCalled /\ \E value \in ZeroArguments : EngineCalculate(value)

SpecZero == Init /\ [][NextZero]_vars

(***************************************************************************)
(* The user at the keys while callers of the engine repeat their calls     *)
(***************************************************************************)
RepeatDigits == {"1", "2"}

RepeatOperators == {"+", "/"}

RepeatClock == 1

\* the calls made are fewer than MaxCalls
MaxCalls == 2

RepeatArguments ==
    {StringValue(s) : s \in {<<"1", "+", "1">>, <<"1", "/", "2">>, <<"1", "/", "0">>}}

NextRepeat ==
    \/ \E value \in RepeatDigits : StartsOperand /\ UpdateInput(value)
    \/ \E op \in RepeatOperators : now < RepeatClock /\ ApplyOperator(op)
    \/ now < RepeatClock /\ Calculate
    \/ Clear
    \/ Len(answers) < MaxCalls /\ \E value \in RepeatArguments : EngineCalculate(value)

SpecRepeat == Init /\ [][NextRepeat]_vars

(***************************************************************************)
(* The user adding one-digit numbers while a caller takes the history and  *)
(* changes what it was handed                                              *)
(***************************************************************************)
SnapshotDigits == {"1"}

SnapshotOperators == {"+"}

SnapshotClock == 2

\* getHistory() is called at most MaxLists times
MaxLists == 2

\* the caller pushes onto a list of fewer than MaxListLength entries
MaxListLength == 2

\* what the caller writes into an entry
CallerTexts == {<<"x">>}

NextSnapshot ==
    \/ \E value \in SnapshotDigits : StartsOperand /\ UpdateInput(value)
    \/ \E op \in SnapshotOperators : now < SnapshotClock /\ ApplyOperator(op)
    \/ now < SnapshotClock /\ Calculate
    \/ Clear
    \/ Len(handed) < MaxLists /\ GetHistory
    \/ \E k \in 1..Len(handed) : Len(handed[k]) < MaxListLength /\ CallerPush(k, Foreign)
    \/ \E k \in 1..Len(handed) : CallerPop(k)
    \/ \E k \in 1..Len(handed) : \E i \in 1..Len(handed[k]) :
           \E text \in CallerTexts : CallerWrites(k, i, text)

SpecSnapshot == Init /\ [][NextSnapshot]_vars

(***************************************************************************)
(* A caller of the engine whose call is followed iteration by iteration:    *)
(* the argument any short text, or one longer expression that makes every  *)
(* loop iterate.  JavaScript runs a call to its end before anything else   *)
(* happens, so a call that can make a step makes it.                       *)
(***************************************************************************)
StepAlphabet == {"0", "2", "+", "*", "/", "(", ")", " "}

MaxText == 4

LongText == <<"(", "2", "*", "2", "+", "2", ")", "+", "2">>

StepTexts == UNION {[1..k -> StepAlphabet] : k \in 0..MaxText} \cup {LongText}

\* no loop is followed for more than StepLimit iterations
StepLimit == 2 * Len(LongText)

NextSteps ==
    \/ /\ run.phase = "idle"
       /\ \E expression \in StepTexts : EngineStart(expression)
    \/ /\ run.phase \in Loops
       /\ run.steps[run.phase] < StepLimit
       /\ EngineStep

SpecSteps == Init /\ [][NextSteps]_vars /\ WF_vars(EngineStep)

(***************************************************************************)
(* The user dividing by 0 and by 1 while the timeouts of handleError run.  *)
(* The browser runs the callback of every timeout that is due, so a        *)
(* pending timeout fires in the end.                                       *)
(***************************************************************************)
TimerDigits == {"0", "1"}

TimerOperators == {"/"}

TimerClock == 2

\* operators and '=' are keyed while fewer than MaxTimers timeouts are pending
MaxTimers == 2

NextTimer ==
    \/ \E value \in TimerDigits : StartsOperand /\ HandleNumberInput(value)
    \/ \E op \in TimerOperators :
           now < TimerClock /\ timers < MaxTimers /\ HandleOperatorInput(op)
    \/ now < TimerClock /\ timers < MaxTimers /\ HandleEquals
    \/ HandleBackspace
    \/ HandleClear
    \/ TimerFires

SpecTimer == Init /\ [][NextTimer]_vars /\ WF_vars(TimerFires)

(***************************************************************************)
(* The page: scripts call init any number of times, before and after the   *)
(* document is parsed, and the user scrolls.  The browser runs the         *)
(* callback of every timeout that is due.                                  *)
(***************************************************************************)
\* init is called while fewer than MaxInit controllers exist or wait to be constructed
MaxInit == 2

ScrollPositions == {0, 50, 150, 200}

NextPage ==
    \/ \E display \in BOOLEAN :
           page.controllers + page.waiting < MaxInit /\ InitCall(display)
    \/ \E display \in BOOLEAN : AutoInitialize(display)
    \/ \E display \in BOOLEAN : DOMContentLoaded(display)
    \/ \E y \in ScrollPositions : Scroll(y)
    \/ ThrottleTimeout

SpecPage == Init /\ [][NextPage]_vars /\ WF_vars(ThrottleTimeout)

(***************************************************************************)
(* Keyed chains and what they are worth                                    *)
(***************************************************************************)
\* k is a chain ending in an operand: 3+4*2
IsChain(k) == k # Untracked /\ k # <<>> /\ IsDigit(k[Len(k)])

OperatorCount(k) == Cardinality({i \in 1..Len(k) : isOperator(k[i])})

\* the operands and operators of the first i keys of a chain: <<3, "+", 4, "*", 2>>
RECURSIVE ChainTerms(_, _)
ChainTerms(k, i) ==
    IF i = 0 THEN <<>>
    ELSE LET p == ChainTerms(k, i - 1)
         IN  IF isOperator(k[i]) THEN Append(p, k[i])
             ELSE IF i > 1 /\ IsDigit(k[i - 1])
             THEN [p EXCEPT ![Len(p)] = 10 * @ + DigitVal(k[i])]
             ELSE Append(p, DigitVal(k[i]))

\* a result as the calculator shows it, to ten decimals
Rounded(r) == IF r.ok THEN Return(roundResult(r.val)) ELSE r

\* ((A op1 B) op2 C) ..., each result shown before it is used
RECURSIVE LeftToRightR(_, _)
LeftToRightR(t, i) ==
    IF i = 1 THEN Return(NumOfNat(t[1]))
    ELSE LET p == LeftToRightR(t, i - 2)
         IN  IF p.ok THEN Rounded(execute(t[i - 1], p.val, NumOfNat(t[i]))) ELSE p

LeftToRight(k) == LeftToRightR(ChainTerms(k, Len(k)), Len(ChainTerms(k, Len(k))))

\* the sum so far, the operator after it and the product being built
RECURSIVE PrecedenceR(_, _)
PrecedenceR(t, i) ==
    IF i = 1 THEN [ok |-> TRUE, sum |-> Zero, op |-> "+", term |-> NumOfNat(t[1])]
    ELSE LET p == PrecedenceR(t, i - 2)
             timesOrOver == Rounded(execute(t[i - 1], p.term, NumOfNat(t[i])))
             plusOrMinus == Rounded(execute(p.op, p.sum, p.term))
         IN  IF ~p.ok THEN p
             ELSE IF t[i - 1] \in {"*", "/"}
             THEN [p EXCEPT !.ok = timesOrOver.ok, !.term = timesOrOver.val]
             ELSE [ok |-> plusOrMinus.ok, sum |-> plusOrMinus.val, op |-> t[i - 1],
                   term |-> NumOfNat(t[i])]

SumOfTerms(p) == IF p.ok THEN Rounded(execute(p.op, p.sum, p.term)) ELSE Throw(SYNTAX_ERROR)

\* the chain with multiplication and division done before addition and
\* subtraction, each result rounded as the calculator rounds it
WithPrecedence(k) ==
    SumOfTerms(PrecedenceR(ChainTerms(k, Len(k)), Len(ChainTerms(k, Len(k)))))

Shows(r) == r.ok /\ currentInput' = toString(r.val)

(***************************************************************************)
(* C1: a keyed chain A op1 B op2 C '=' of whole numbers, every step of     *)
(* which has a value, displays (A op1 B) op2 C, whatever the precedence of *)
(* op1 and op2.                                                            *)
(***************************************************************************)
C1_ChainLeftToRight ==
    [][IsChain(keyed) /\ OperatorCount(keyed) >= 2 /\ LeftToRight(keyed).ok /\ Calculate
       => Shows(LeftToRight(keyed))]_vars

(***************************************************************************)
(* C2: a keyed chain of two or more operators followed by '=' displays the *)
(* value of the whole expression with * and / done before + and -:         *)
(* 3 + 4 * 2 = displays 11.                                                *)
(***************************************************************************)
C2_ChainPrecedence ==
    [][IsChain(keyed) /\ OperatorCount(keyed) >= 2 /\ WithPrecedence(keyed).ok /\ Calculate
       => Shows(WithPrecedence(keyed))]_vars

(***************************************************************************)
(* What the display may read                                               *)
(***************************************************************************)
Unsigned(s) == IF s # <<>> /\ s[1] \in {"-", "+"} THEN Tail(s) ELSE s

\* digits with at most one decimal point, then perhaps e and a whole exponent
IsUnsignedLiteral(s) ==
    IF \E i \in 1..Len(s) : s[i] = "e"
    THEN LET e == CHOOSE i \in 1..Len(s) : s[i] = "e"
             exponent == Unsigned(SubSeq(s, e + 1, Len(s)))
         IN  /\ IsDecimalLiteral(SubSeq(s, 1, e - 1))
             /\ exponent # <<>>
             /\ \A i \in 1..Len(exponent) : IsDigit(exponent[i])
    ELSE IsDecimalLiteral(s)

\* a numeric literal, with or without a minus sign
IsNumericLiteral(s) ==
    IsUnsignedLiteral(IF s # <<>> /\ s[1] = "-" THEN Tail(s) ELSE s)

(***************************************************************************)
(* C3: in every reachable state the display is a numeric literal, the      *)
(* default "0" or exactly the sentinel "Error".                            *)
(***************************************************************************)
C3_DisplayContract ==
    \/ IsNumericLiteral(getDisplayValue)
    \/ getDisplayValue = DEFAULT_DISPLAY_VALUE
    \/ getDisplayValue = ERROR_MESSAGE

\* the step is a call of applyOperator or of calculate
OperatorOrEquals == (\E op \in OPERATORS : ApplyOperator(op)) \/ Calculate

(***************************************************************************)
(* C4 as the spec states it: once the display shows "Error" it keeps       *)
(* showing it through every operation but clear() and a calculation that   *)
(* succeeds.                                                               *)
(***************************************************************************)
C4_ErrorUntilClearOrSuccess ==
    [][getDisplayValue = ERROR_MESSAGE /\ ~Clear /\ now' = now
       => getDisplayValue' = ERROR_MESSAGE]_vars

(***************************************************************************)
(* C4 as amended: a call that throws leaves "Error" on the display with    *)
(* the display marked for reset, and the display keeps showing "Error"     *)
(* through applyOperator and calculate, until the next updateInput,        *)
(* backspace or clear.                                                     *)
(***************************************************************************)
C4_ErrorUntilEdited ==
    [][/\ thrown' # "none" => getDisplayValue' = ERROR_MESSAGE /\ shouldResetDisplay'
       /\ getDisplayValue = ERROR_MESSAGE /\ OperatorOrEquals
              => getDisplayValue' = ERROR_MESSAGE /\ shouldResetDisplay']_vars

\* an operator was applied to the "Error" display, which still shows
C4_ErrorKept ==
    /\ getDisplayValue = ERROR_MESSAGE
    /\ previousInput = ERROR_MESSAGE
    /\ operator # NULL

(***************************************************************************)
(* C5: the history is a bounded FIFO.  It never holds more than 10         *)
(* entries, and they are the most recent calculations in the order they    *)
(* were made: every successful calculation appends its entry at the end    *)
(* and, once 10 are held, evicts the oldest; nothing but clear() removes   *)
(* any other entry, and clear() empties the history.                       *)
(***************************************************************************)
C5_HistoryBoundedFifo ==
    /\ [](/\ Len(getHistory) <= 10
          /\ \A i \in 1..Len(getHistory) :
                 getHistory[i].timestamp = now - Len(getHistory) + i)
    /\ [][/\ now' = now + 1 =>
                /\ Len(getHistory') = Min(Len(getHistory) + 1, 10)
                /\ getHistory'[Len(getHistory')].timestamp = now'
                /\ \A i \in 1..(Len(getHistory') - 1) :
                       getHistory'[i] = getHistory[i + Len(getHistory) + 1 - Len(getHistory')]
          /\ now' = now /\ ~Clear => getHistory' = getHistory
          /\ Clear => getHistory' = <<>>]_vars

\* an eleventh calculation has evicted the first
C5_OldestEvicted == Len(getHistory) = 10 /\ getHistory[1].timestamp = 2

\* the expression calculate() hands to the engine
Pending == previousInput \o <<operator>> \o currentInput

\* what a call that throws leaves behind
ErrorPresented ==
    /\ currentInput' = ERROR_MESSAGE
    /\ previousInput' = <<>>
    /\ operator' = NULL
    /\ shouldResetDisplay'
    /\ getHistory' = getHistory
    /\ getLastCalculation' = getLastCalculation

(***************************************************************************)
(* C6: when the engine fails inside calculate(), currentInput becomes      *)
(* "Error", previousInput and the operator are cleared, the display is     *)
(* marked for reset, the engine's typed error reaches the caller, and      *)
(* history and lastCalculation stay as they were.                          *)
(***************************************************************************)
C6_FailurePresentedAndRaised ==
    [][/\ operator # NULL /\ previousInput # <<>> /\ Calculate
           => LET result == evaluate(Pending)
              IN  ~result.ok => thrown' = result.type /\ ErrorPresented
       /\ thrown' # "none" => thrown' \in ERROR_TYPES /\ ErrorPresented]_vars

\* a calculation has failed after another had succeeded
C6_FailedAfterSuccess ==
    /\ thrown \in ERROR_TYPES
    /\ currentInput = ERROR_MESSAGE
    /\ getHistory # <<>>

(***************************************************************************)
(* C7: a successful calculate() appends exactly one entry to the history,  *)
(* with expression = previousInput + operator + currentInput, the engine's *)
(* result and the time; currentInput becomes the result, previousInput and *)
(* the operator are cleared and the display is marked for reset, so that   *)
(* the next digit replaces the result.                                     *)
(***************************************************************************)
C7_SuccessRecorded ==
    [][/\ now' = now + 1 /\ Calculate
           => LET entry == getHistory'[Len(getHistory')]
              IN  /\ getHistory' = Append(getHistory, entry)
                     \/ /\ Len(getHistory) = 10
                        /\ getHistory' = Append(Tail(getHistory), entry)
                  /\ entry.expression = Pending
                  /\ entry.result = evaluate(Pending).val
                  /\ entry.timestamp = now'
                  /\ getLastCalculation' =
                         [expression |-> Pending, result |-> entry.result]
                  /\ currentInput' = toString(entry.result)
                  /\ previousInput' = <<>>
                  /\ operator' = NULL
                  /\ shouldResetDisplay'
                  /\ thrown' = "none"
       /\ \A value \in DigitSet :
              shouldResetDisplay /\ UpdateInput(value)
                  => currentInput' = <<value>> /\ ~shouldResetDisplay']_vars

\* two calculations have succeeded and the second result is on display
C7_ResultShown ==
    /\ Len(getHistory) = 2
    /\ getLastCalculation # NoCalculation
    /\ getLastCalculation.expression = getHistory[2].expression
    /\ currentInput = toString(getHistory[2].result)
    /\ shouldResetDisplay
    /\ operator = NULL

(***************************************************************************)
(* Whole-number arithmetic worked by hand                                  *)
(***************************************************************************)
IsWhole(s) == s # <<>> /\ \A i \in 1..Len(s) : IsDigit(s[i])

RECURSIVE NatOf(_, _)
NatOf(s, i) == IF i = 0 THEN 0 ELSE 10 * NatOf(s, i - 1) + DigitVal(s[i])

RECURSIVE NatString(_)
NatString(n) ==
    IF n < 10 THEN <<DigitChar(n)>> ELSE Append(NatString(n \div 10), DigitChar(n % 10))

\* the first k decimals of r / b for r < b, and what remains
RECURSIVE Decimals(_, _, _)
Decimals(r, b, k) ==
    IF k = 0 THEN [digits |-> <<>>, rest |-> r]
    ELSE LET p == Decimals(r, b, k - 1)
         IN  [digits |-> Append(p.digits, (10 * p.rest) \div b),
              rest |-> (10 * p.rest) % b]

\* one more in the last place; <<>> when every digit was 9
RECURSIVE Bumped(_)
Bumped(d) ==
    IF d = <<>> THEN <<>>
    ELSE IF d[Len(d)] < 9 THEN [d EXCEPT ![Len(d)] = @ + 1]
    ELSE LET front == Bumped(SubSeq(d, 1, Len(d) - 1))
         IN  IF front = <<>> THEN <<>> ELSE Append(front, 0)

RECURSIVE Trimmed(_)
Trimmed(d) ==
    IF d # <<>> /\ d[Len(d)] = 0 THEN Trimmed(SubSeq(d, 1, Len(d) - 1)) ELSE d

DecimalString(whole, d) ==
    IF Trimmed(d) = <<>> THEN NatString(whole)
    ELSE NatString(whole) \o <<".">> \o [i \in 1..Len(Trimmed(d)) |-> DigitChar(Trimmed(d)[i])]

\* a / b to ten decimals, a half rounded up
Quotient(a, b) ==
    LET p == Decimals(a % b, b, 10)
    IN  IF 2 * p.rest < b THEN DecimalString(a \div b, p.digits)
        ELSE IF Bumped(p.digits) = <<>> THEN NatString(a \div b + 1)
        ELSE DecimalString(a \div b, Bumped(p.digits))

ByHand(op, a, b) ==
    CASE op = "+" -> NatString(a + b)
      [] op = "-" -> IF a >= b THEN NatString(a - b) ELSE <<"-">> \o NatString(b - a)
      [] op = "*" -> NatString(a * b)
      [] op = "/" -> Quotient(a, b)

(***************************************************************************)
(* C8: keying whole numbers A, an operator among + - * /, B (not zero      *)
(* under /) and '=' displays A op B with A the left operand, also when A   *)
(* is a result carried on from the calculation before.                     *)
(***************************************************************************)
C8_BinaryResult ==
    [][/\ operator \in {"+", "-", "*", "/"}
       /\ IsWhole(previousInput)
       /\ IsWhole(currentInput)
       /\ operator = "/" => NatOf(currentInput, Len(currentInput)) # 0
       /\ Calculate
       => /\ thrown' = "none"
          /\ getDisplayValue' = ByHand(operator,
                                       NatOf(previousInput, Len(previousInput)),
                                       NatOf(currentInput, Len(currentInput)))]_vars

\* 7 + 7 = 14 was carried on: 14 - 2 = 12
C8_CarriedOn ==
    /\ Len(getHistory) = 2
    /\ getHistory[1].expression = <<"7", "+", "7">>
    /\ getHistory[2].expression = <<"1", "4", "-", "2">>
    /\ getDisplayValue = <<"1", "2">>

(***************************************************************************)
(* C9: the '%' key is a percentage: keying whole numbers A % B '=', B not   *)
(* zero, displays B percent of A, that is A * B / 100.                     *)
(***************************************************************************)
C9_Percentage ==
    [][/\ operator = "%"
       /\ IsWhole(previousInput)
       /\ IsWhole(currentInput)
       /\ NatOf(currentInput, Len(currentInput)) # 0
       /\ Calculate
       => getDisplayValue' = Quotient(NatOf(previousInput, Len(previousInput))
                                          * NatOf(currentInput, Len(currentInput)),
                                      100)]_vars

(***************************************************************************)
(* C10: in every reachable state currentInput is at most                   *)
(* MAX_DISPLAY_LENGTH = 16 characters long.                                *)
(***************************************************************************)
C10_DisplayWidth == Len(currentInput) <= MAX_DISPLAY_LENGTH

(***************************************************************************)
(* Direct calls of the engine                                              *)
(***************************************************************************)
Called == outcome # NotCalled

\* the engine was called with the text s
CalledWith(s) == Called /\ argument = StringValue(s)

Text == argument.chars

ValueOf(c) == Return(NumOfNat(DigitVal(c)))

\* x op y worked on outcomes: the first failure is the outcome
Apply(op, x, y) ==
    IF ~x.ok THEN x ELSE IF ~y.ok THEN y ELSE execute(op, x.val, y.val)

\* a op1 b op2 c with one-digit operands
IsTriple(s) ==
    /\ Len(s) = 5
    /\ IsDigit(s[1]) /\ isOperator(s[2]) /\ IsDigit(s[3]) /\ isOperator(s[4])
    /\ IsDigit(s[5])

\* a op1 (b op2 c)
RightFirst(a, op1, b, op2, c) ==
    Rounded(Apply(op1, ValueOf(a), Apply(op2, ValueOf(b), ValueOf(c))))

\* (a op1 b) op2 c
LeftFirst(a, op1, b, op2, c) ==
    Rounded(Apply(op2, Apply(op1, ValueOf(a), ValueOf(b)), ValueOf(c)))

\* C11: a chain a op1 b op2 c of operators of equal precedence is evaluated
\* as a op1 (b op2 c), the second operator never popping the first
C11_EqualPrecedenceRightFirst ==
    Called /\ IsTriple(Text) /\ precedence(Text[2]) = precedence(Text[4])
        => outcome = RightFirst(Text[1], Text[2], Text[3], Text[4], Text[5])

\* evaluate("1-2-3") has yielded 2
C11_OneTwoThree ==
    CalledWith(<<"1", "-", "2", "-", "3">>) /\ outcome = Return(NumOfNat(2))

Additive == {"+", "-"}

Multiplicative == {"*", "/", "%"}

\* C12: in a op1 b op2 c the multiplicative operator is applied before the
\* additive one: a+b*c is a+(b*c) and a*b+c is (a*b)+c
C12_EnginePrecedence ==
    Called /\ IsTriple(Text) =>
        /\ Text[2] \in Additive /\ Text[4] \in Multiplicative
               => outcome = RightFirst(Text[1], Text[2], Text[3], Text[4], Text[5])
        /\ Text[2] \in Multiplicative /\ Text[4] \in Additive
               => outcome = LeftFirst(Text[1], Text[2], Text[3], Text[4], Text[5])

\* evaluate("3+4*2") has yielded 11
C12_ThreePlusFourTimesTwo ==
    CalledWith(<<"3", "+", "4", "*", "2">>) /\ outcome = Return(NumOfNat(11))

\* (a op1 b) op2 c with one-digit operands
IsLeftGroup(s) ==
    /\ Len(s) = 7
    /\ s[1] = "(" /\ IsDigit(s[2]) /\ isOperator(s[3]) /\ IsDigit(s[4])
    /\ s[5] = ")" /\ isOperator(s[6]) /\ IsDigit(s[7])

\* a op1 (b op2 c) with one-digit operands
IsRightGroup(s) ==
    /\ Len(s) = 7
    /\ IsDigit(s[1]) /\ isOperator(s[2]) /\ s[3] = "("
    /\ IsDigit(s[4]) /\ isOperator(s[5]) /\ IsDigit(s[6]) /\ s[7] = ")"

NumbersAndOperators(rpn) ==
    \A i \in 1..Len(rpn) : rpn[i].t = "number" \/ isOperator(rpn[i].v)

\* the operator stack when the token loop of the converter ends
OperatorsLeft(tokens) == ShuntR(tokens, Len(tokens)).operators

NoParenthesis(operators) ==
    \A i \in 1..Len(operators) : operators[i] \notin {"(", ")"}

\* C13: the RPN sequence of a validated expression holds numbers and
\* operators only, no parenthesis stays on the operator stack, and a
\* parenthesised pair is evaluated before the operator outside it
C13_ParenthesesGroup ==
    Called /\ argument.typeof = "string" =>
        /\ validateExpression(Text) = "none" =>
               /\ NumbersAndOperators(toReversePolishNotation(Text))
               /\ NoParenthesis(OperatorsLeft(tokenizeExpression(Text)))
        /\ IsLeftGroup(Text)
               => outcome = LeftFirst(Text[2], Text[3], Text[4], Text[6], Text[7])
        /\ IsRightGroup(Text)
               => outcome = RightFirst(Text[1], Text[2], Text[4], Text[5], Text[6])

\* evaluate("(1+2)*3") has yielded 9
C13_GroupedFirst ==
    CalledWith(<<"(", "1", "+", "2", ")", "*", "3">>) /\ outcome = Return(NumOfNat(9))

\* s has a run of digits and decimal points with more than one point
HasTwoPoints(s) ==
    \E i, j \in 1..Len(s) :
        /\ i < j /\ s[i] = "." /\ s[j] = "."
        /\ \A k \in i..j : IsDigit(s[k]) \/ s[k] = "."

\* s has no white space but spaces
SpacesOnly(s) == \A i \in 1..Len(s) : s[i] \in Whitespace => s[i] = " "

\* C14: an expression that passes validation and has a numeric run with more
\* than one decimal point fails with SyntaxError (shown on expressions whose
\* only white space is spaces)
C14_TwoPointsFail ==
    Called /\ argument.typeof = "string" /\ validateExpression(Text) = "none"
           /\ SpacesOnly(Text) /\ HasTwoPoints(Text)
        => outcome = Throw(SYNTAX_ERROR)

IsNumeric(c) == IsDigit(c) \/ c = "."

\* the places of s between two tokens: after character i, where the
\* characters on both sides are no white space and not of one number
TokenGaps(s) ==
    {i \in 1..(Len(s) - 1) :
        /\ s[i] \notin Whitespace /\ s[i + 1] \notin Whitespace
        /\ ~(IsNumeric(s[i]) /\ IsNumeric(s[i + 1]))}

\* s with the character w put in after character i
Inserted(s, i, w) == SubSeq(s, 1, i) \o <<w>> \o SubSeq(s, i + 1, Len(s))

\* the outcome is that of the same text with w between any two tokens
SameWith(w) ==
    \A i \in TokenGaps(Text) : evaluate(Inserted(Text, i, w)) = outcome

\* C15: a space, tab or newline put between two tokens of an expression does
\* not change the outcome of evaluate
C15_WhitespaceDiscarded ==
    Called /\ argument.typeof = "string" => \A w \in Whitespace : SameWith(w)

\* digits, + - * / % . ( ) and white space
AcceptedChars ==
    DigitSet \cup {"+", "-", "*", "/", "%", ".", "(", ")"} \cup Whitespace

OverAlphabet(s) == Len(s) > 0 /\ \A i \in 1..Len(s) : s[i] \in AcceptedChars

\* how many of the first k characters of s are c
Count(s, c, k) == Cardinality({i \in 1..k : s[i] = c})

\* '(' minus ')' is negative after some prefix, or not zero at the end
Unbalanced(s) ==
    \/ \E k \in 1..Len(s) : Count(s, "(", k) < Count(s, ")", k)
    \/ Count(s, "(", Len(s)) # Count(s, ")", Len(s))

\* C16: an expression over the accepted alphabet with unbalanced parentheses
\* fails with SyntaxError, and validation passes balanced expressions only
C16_UnbalancedRejected ==
    Called /\ argument.typeof = "string" =>
        /\ OverAlphabet(Text) /\ Unbalanced(Text) => outcome = Throw(SYNTAX_ERROR)
        /\ validateExpression(Text) = "none" => ~Unbalanced(Text)

\* evaluate("(1+2") has failed with SyntaxError
C16_OpenedNotClosed ==
    CalledWith(<<"(", "1", "+", "2">>) /\ outcome = Throw(SYNTAX_ERROR)

\* a pattern of the deny list matches s, letters in either case
OnDenyList(s) ==
    \/ \E p \in dangerousPatterns : HasSubstring(LowerString(s), p)
    \/ HasNewFunction(LowerString(s))

\* C17: an argument that is no string, is empty, has a character outside the
\* accepted alphabet or matches the deny list fails with InvalidInput,
\* balanced or not
C17_InvalidInputFirst ==
    Called /\ \/ argument.typeof # "string"
              \/ Len(Text) = 0
              \/ \E i \in 1..Len(Text) : Text[i] \notin AcceptedChars
              \/ OnDenyList(Text)
        => outcome = Throw(INVALID_INPUT)

\* evaluate("(1+a"), unbalanced too, has failed with InvalidInput
C17_LetterAndUnbalanced ==
    CalledWith(<<"(", "1", "+", "a">>) /\ outcome = Throw(INVALID_INPUT)

Dividing == {"/", "%"}

IsZeroOutcome(r) == r.ok /\ IsZero(r.val)

\* s is a op 0 or a op (b op2 c) with b op2 c worth 0, op dividing
DividesByZero(s) ==
    \/ /\ Len(s) = 3 /\ IsDigit(s[1]) /\ s[2] \in Dividing /\ s[3] = "0"
    \/ /\ IsRightGroup(s) /\ s[2] \in Dividing
       /\ IsZeroOutcome(Apply(s[5], ValueOf(s[4]), ValueOf(s[6])))

\* the state reset() leaves
Fresh(input, previous, op, resets) ==
    /\ input = DEFAULT_DISPLAY_VALUE /\ previous = <<>> /\ op = NULL /\ ~resets

\* C18: division and modulo by a zero, written or computed, fail with
\* DivisionByZero; keyed as A / 0 = the display shows "Error"; clear() then
\* leaves a calculator on which the key 1 shows "1"
C18_DivisionByZero ==
    /\ [](Called /\ DividesByZero(Text) => outcome = Throw(DIVISION_BY_ZERO))
    /\ [][/\ operator \in Dividing /\ IsDecimalLiteral(previousInput)
              /\ currentInput = <<"0">> /\ Calculate
                 => getDisplayValue' = ERROR_MESSAGE /\ thrown' = DIVISION_BY_ZERO]_vars
    /\ [][getDisplayValue = ERROR_MESSAGE /\ Clear
             => Fresh(currentInput', previousInput', operator', shouldResetDisplay')]_vars
    /\ [][/\ Fresh(currentInput, previousInput, operator, shouldResetDisplay)
              /\ UpdateInput("1")
                 => getDisplayValue' = <<"1">>]_vars

\* 1/(2-2) has failed with DivisionByZero, and so has a keyed division: the
\* display shows "Error"
C18_DividedByZero ==
    /\ CalledWith(<<"1", "/", "(", "2", "-", "2", ")">>)
    /\ outcome = Throw(DIVISION_BY_ZERO)
    /\ getDisplayValue = ERROR_MESSAGE /\ thrown = DIVISION_BY_ZERO

\* the numbers less the operators among the first i tokens of rpn: the depth
\* of the operand stack when every operator so far had its two operands
Depth(rpn, i) ==
    Cardinality({k \in 1..i : rpn[k].t = "number"})
        - Cardinality({k \in 1..i : rpn[k].t # "number"})

\* the operators of rpn met with fewer than two operands
Underflows(rpn) ==
    {i \in 1..Len(rpn) : rpn[i].t # "number" /\ Depth(rpn, i - 1) < 2}

\* the tokens before the first such operator, all of them when there is none
SoundPrefix(rpn) ==
    IF Underflows(rpn) = {} THEN Len(rpn)
    ELSE (CHOOSE i \in Underflows(rpn) : \A j \in Underflows(rpn) : i <= j) - 1

\* no operation of the first i tokens has failed
Unfailed(rpn, i) == EvaluateR(rpn, i).type = "none"

StackDepth(rpn, i) == Len(EvaluateR(rpn, i).stack)

\* the outcome for the sequence rpn: a value only when no operator lacks an
\* operand and one value is left; SyntaxError when an operator lacks one or
\* the values left are not one, unless an operation failed before
OperandStackSound(rpn) ==
    /\ \A i \in 0..SoundPrefix(rpn) :
           Unfailed(rpn, i) => StackDepth(rpn, i) = Depth(rpn, i)
    /\ outcome.ok => Underflows(rpn) = {} /\ Depth(rpn, Len(rpn)) = 1
    /\ Unfailed(rpn, SoundPrefix(rpn))
           /\ (Underflows(rpn) # {} \/ Depth(rpn, Len(rpn)) # 1)
           => outcome = Throw(SYNTAX_ERROR)

\* C19: RPN evaluation never pops an operand that is not there: an operator
\* with fewer than two operands fails with SyntaxError, and a value is
\* returned only when exactly one is left on the stack
C19_OperandStack ==
    Called /\ argument.typeof = "string" /\ validateExpression(Text) = "none"
        => OperandStackSound(toReversePolishNotation(Text))

\* "1 2" has left two values and failed with SyntaxError
C19_TwoValuesLeft ==
    CalledWith(<<"1", " ", "2">>) /\ outcome = Throw(SYNTAX_ERROR)

\* the calculator's engine gave result for the text s
Recorded(entry, s, result) == entry.expression = s => entry.result = result

Constructed(input, previous, op, resets, entries, last) ==
    /\ Fresh(input, previous, op, resets)
    /\ entries = <<>>
    /\ last = NoCalculation

\* C21: clear() leaves the fields of a freshly constructed CalculatorState,
\* whatever the state before, and a second clear() changes nothing
C21_ClearReinitializes ==
    /\ [](clear(clear(State)) = clear(State))
    /\ [][Clear => Constructed(currentInput', previousInput', operator',
                               shouldResetDisplay', history', lastCalculation')]_vars

\* a cleared calculator that had filled its history
C21_ClearedFullHistory ==
    /\ now >= HISTORY_LIMIT
    /\ Constructed(currentInput, previousInput, operator, shouldResetDisplay,
                   history, lastCalculation)

\* C22: calculate() with no pending operator or an empty previousInput
\* throws nothing and changes no field
C22_CalculateWithoutOperator ==
    [][(operator = NULL \/ previousInput = <<>>) /\ Calculate
          => /\ thrown' = "none"
             /\ UNCHANGED <<currentInput, previousInput, operator,
                            shouldResetDisplay, history, lastCalculation, now>>]_vars

\* '=' pressed again on a result: the result stays, nothing is pending
C22_EqualsOnResult ==
    /\ keyed = Untracked /\ operator = NULL /\ shouldResetDisplay
    /\ lastCalculation # NoCalculation
    /\ currentInput = toString(lastCalculation.result)

\* the operand a typed character starts: the character, or "0." for the point
FreshOperands(value) ==
    IF value = DECIMAL THEN {<<DECIMAL>>, <<"0", DECIMAL>>} ELSE {<<value>>}

\* C23: a digit or decimal point typed on the default display or on a display
\* awaiting reset starts a fresh operand and consumes the flag; typed on any
\* other display it is appended (or dropped, the display unchanged)
C23_TypedStartsOperand ==
    [][\A value \in Digits \cup {DECIMAL} :
          UpdateInput(value) =>
              IF StartsOperand
              THEN currentInput' \in FreshOperands(value) /\ ~shouldResetDisplay'
              ELSE currentInput' \in {Append(currentInput, value), currentInput}]_vars

Points(s) == Cardinality({i \in 1..Len(s) : s[i] = "."})

\* C24: currentInput never holds more than one decimal point, and a decimal
\* point typed on a display that holds one changes no field
C24_OneDecimalPoint ==
    /\ [](Points(currentInput) <= 1)
    /\ [][Points(currentInput) >= 1 /\ UpdateInput(DECIMAL)
             => UNCHANGED <<currentInput, previousInput, operator,
                            shouldResetDisplay, history, lastCalculation, now>>]_vars

\* a second operand with a decimal point after a first one with one
C24_PointInBothOperands ==
    Points(previousInput) = 1 /\ Points(currentInput) = 1 /\ ~shouldResetDisplay

\* C25: backspace cuts the last character off a currentInput of two or more
\* characters and turns one of a single character into "0"; currentInput is
\* never empty and backspace changes no other field
C25_BackspaceLastCharacter ==
    /\ [](currentInput # <<>>)
    /\ [][Backspace
             => /\ currentInput' = IF Len(currentInput) > 1
                                    THEN SubSeq(currentInput, 1, Len(currentInput) - 1)
                                    ELSE <<"0">>
                /\ UNCHANGED <<previousInput, operator, shouldResetDisplay,
                               history, lastCalculation>>]_vars

\* the single digit shown after an operator key was deleted: "0" with the
\* operand 3 and the operator still pending and the display awaiting reset
C25_BackspacedToZero ==
    /\ currentInput = <<"0">> /\ previousInput = <<"3">>
    /\ operator # NULL /\ shouldResetDisplay /\ keyed = Untracked

\* a step of the caller on a list it was handed
CallerStep ==
    \E k \in 1..Len(handed) :
        \/ CallerPush(k, Foreign)
        \/ CallerPop(k)
        \/ \E i \in 1..Len(handed[k]) : \E text \in CallerTexts : CallerWrites(k, i, text)

\* C26: calculate() and clear() change no list getHistory() returned earlier,
\* and the caller changing a list it was handed, or an entry in it, changes
\* neither the history of the state nor a list handed out at another call
C26_HistorySnapshot ==
    [][/\ Calculate \/ Clear => UNCHANGED handed
       /\ CallerStep => UNCHANGED history]_vars

\* C27: every call of the engine on a string ends, in a number or in an
\* error of one of the four types, the same that evaluate yields; no loop of
\* validation, tokenization, the conversion to RPN (its inner loops too)
\* and the RPN evaluation makes more iterations than the string has
\* characters
C27_EvaluateTerminates ==
    /\ [](\A l \in Loops : run.steps[l] <= Len(run.expression))
    /\ [](run.phase = "done"
            => /\ returned(run) = evaluate(run.expression)
               /\ returned(run).ok \/ returned(run).type \in ERROR_TYPES)
    /\ (run.phase \in Loops ~> run.phase = "done")

\* a call that has returned a number after every loop has iterated
C27_EveryLoopIterated ==
    /\ run.phase = "done" /\ returned(run).ok
    /\ \A l \in Loops : run.steps[l] >= 1

\* the step is a call of calculate() or applyOperator() that passes Pending,
\* the expression built of the three fields, to the engine
Submits ==
    /\ operator # NULL /\ previousInput # <<>>
    /\ \/ Calculate
       \/ ~shouldResetDisplay /\ \E op \in OPERATORS : ApplyOperator(op)

\* C28: every expression CalculatorState passes to the engine is a numeric
\* operand (digits with at most one decimal point), one operator and a
\* numeric operand
C28_SimpleExpressions ==
    [][Submits => /\ IsDecimalLiteral(previousInput)
                  /\ operator \in OPERATORS
                  /\ IsDecimalLiteral(currentInput)]_vars

\* the left operand is the result of the last calculation as displayed, and
\* a whole number B has been typed after the operator
ResultCarried ==
    /\ lastCalculation # NoCalculation
    /\ previousInput = toString(lastCalculation.result)
    /\ operator # NULL
    /\ ~shouldResetDisplay /\ IsWhole(currentInput)
    /\ operator \in {"/", "%"} => NatOf(currentInput, Len(currentInput)) # 0

\* C29: '=' on a result R carried on as left operand, an operator and typed
\* digits B (B not zero under / and %) succeeds and displays R op B, also
\* when R is negative
C29_ResultReusable ==
    [][ResultCarried /\ Calculate
       => /\ thrown' = "none"
          /\ Shows(Rounded(execute(operator, lastCalculation.result,
                                   NumOfNat(NatOf(currentInput, Len(currentInput))))))]_vars

\* the state is as the constructor leaves it
Initial ==
    Constructed(currentInput, previousInput, operator, shouldResetDisplay,
                history, lastCalculation)

\* C30: every error a handler catches sets one more timeout; no handler takes
\* a timeout away, whatever is keyed before it fires (clear, digits, a
\* calculation that succeeds); a timeout that fires leaves the state as the
\* constructor does; so while a timeout is pending the calculator is bound to
\* reach the initial state
C30_ErrorTimeoutClears ==
    /\ [][thrown' # "none" => timers' = timers + 1]_vars
    /\ [][timers' < timers => TimerFires]_vars
    /\ [][TimerFires => Initial']_vars
    /\ (timers > 0 ~> Initial)

\* a result is on display and in the history while the timeout of an
\* earlier error is pending
C30_ResultShownTimeoutPending ==
    /\ timers > 0 /\ thrown = "none"
    /\ history # <<>> /\ lastCalculation # NoCalculation
    /\ currentInput = toString(lastCalculation.result) /\ shouldResetDisplay

(***************************************************************************)
(* Operators, the last calculation and the conversion to RPN               *)
(***************************************************************************)
\* applyOperator evaluates the pending expression and the engine fails on it
ChainFails ==
    /\ operator # NULL /\ ~shouldResetDisplay /\ previousInput # <<>>
    /\ ~evaluate(Pending).ok

\* C31: when the evaluation inside applyOperator(op2) fails, applyOperator
\* throws the engine's error and op2 is not recorded: the display is "Error",
\* previousInput is empty, no operator is pending and the display awaits
\* reset, so that a digit typed next starts a number and '=' changes nothing
C31_ChainedFailure ==
    [][\A op \in OPERATORS :
          ChainFails /\ ApplyOperator(op)
              => /\ thrown' = evaluate(Pending).type
                 /\ currentInput' = ERROR_MESSAGE
                 /\ previousInput' = <<>> /\ operator' = NULL /\ shouldResetDisplay'
                 /\ history' = history /\ lastCalculation' = lastCalculation
                 /\ \A d \in DigitSet : updateInput(State', d).currentInput = <<d>>
                 /\ calculate(State') = State']_vars

\* an operator key has thrown DivisionByZero
C31_OperatorKeyThrew ==
    /\ thrown = DIVISION_BY_ZERO /\ keyed = Untracked
    /\ currentInput = ERROR_MESSAGE /\ operator = NULL

\* C33: an operator key pressed while an operator is pending and the display
\* awaits reset replaces the pending operator and nothing else: no
\* evaluation, no history entry, the display kept, previousInput the value
\* displayed
C33_OperatorReplaced ==
    [][\A op \in OPERATORS :
          operator # NULL /\ shouldResetDisplay /\ ApplyOperator(op)
              => /\ thrown' = "none"
                 /\ operator' = op
                 /\ previousInput' = currentInput
                 /\ UNCHANGED <<currentInput, shouldResetDisplay, history,
                                lastCalculation, now>>]_vars

\* 7 + - was keyed: 7 is displayed and is the left operand of the pending '-'
C33_SevenPlusMinus ==
    /\ operator = "-" /\ previousInput = <<"7">> /\ currentInput = <<"7">>
    /\ shouldResetDisplay /\ keyed = Untracked /\ history = <<>>

\* C34: an operator is pending exactly when previousInput is not empty, and
\* currentInput is never the empty string
C34_OperatorWithOperand ==
    /\ (operator # NULL) <=> (previousInput # <<>>)
    /\ currentInput # <<>>

\* an operator is pending after a first calculation, its left operand a
\* result
C34_PendingAfterResult ==
    /\ operator # NULL /\ history # <<>>
    /\ previousInput = toString(lastCalculation.result)

\* the newest entry of the history
Newest == getHistory[Len(getHistory)]

\* C35: getLastCalculation() is null exactly when the history is empty, and
\* else holds the expression and the result of the newest history entry; a
\* calculation that fails changes neither
C35_LastIsNewest ==
    /\ [](IF getHistory = <<>> THEN getLastCalculation = NoCalculation
          ELSE /\ getLastCalculation # NoCalculation
               /\ getLastCalculation.expression = Newest.expression
               /\ getLastCalculation.result = Newest.result)
    /\ [][thrown' # "none" => UNCHANGED <<history, lastCalculation>>]_vars

\* a calculation has failed after one that succeeded
C35_FailedAfterSuccess ==
    /\ thrown # "none" /\ Len(getHistory) = 1
    /\ getLastCalculation.expression = Newest.expression

IsOperatorToken(token) == Len(token) = 1 /\ isOperator(token[1])

IsParenthesis(token) == token \in {<<"(">>, <<")">>}

IsNumberEntry(entry) == entry.t = "number"

IsOperatorEntry(entry) == entry.t = "symbol" /\ isOperator(entry.v)

\* the text passes validation and its tokens are well-formed numbers,
\* operators and parentheses, with no white space but spaces
WellFormed(s) ==
    /\ validateExpression(s) = "none"
    /\ \A i \in 1..Len(s) : s[i] \in Whitespace => s[i] = " "
    /\ \A i \in 1..Len(tokenizeExpression(s)) :
           \/ IsDecimalLiteral(tokenizeExpression(s)[i])
           \/ IsOperatorToken(tokenizeExpression(s)[i])
           \/ IsParenthesis(tokenizeExpression(s)[i])

\* the RPN holds the numbers of the tokens in their order, every operator
\* token once, and nothing else
KeepsTokens(tokens, rpn) ==
    LET numbers == SelectSeq(tokens, IsDecimalLiteral)
        entries == SelectSeq(rpn, IsNumberEntry)
    IN  /\ Len(entries) = Len(numbers)
        /\ \A i \in 1..Len(numbers) : entries[i].v = parseFloat(numbers[i])
        /\ \A op \in OPERATORS :
               Cardinality({i \in 1..Len(rpn) : rpn[i].t = "symbol" /\ rpn[i].v = op})
                   = Cardinality({i \in 1..Len(tokens) : tokens[i] = <<op>>})
        /\ Len(rpn) = Len(numbers) + Len(SelectSeq(tokens, IsOperatorToken))

\* C36: of a validated expression of well-formed numbers, operators,
\* parentheses and spaces the RPN keeps the numbers in their order and holds
\* every operator token once: its length is the number of number tokens plus
\* the number of operator tokens
C36_RpnKeepsTokens ==
    Called /\ argument.typeof = "string" /\ WellFormed(Text)
        => KeepsTokens(tokenizeExpression(Text), toReversePolishNotation(Text))

\* an expression with parentheses and two operators left on the stack at
\* the end of the input
C36_TwoOperatorsLeft ==
    /\ Called /\ argument.typeof = "string" /\ WellFormed(Text)
    /\ \E i \in 1..Len(Text) : Text[i] = "("
    /\ LET rpn == toReversePolishNotation(Text)
       IN  Len(rpn) >= 5 /\ IsOperatorEntry(rpn[Len(rpn)])
                        /\ IsOperatorEntry(rpn[Len(rpn) - 1])

\* an operator token is the first token or follows an operator or a "("
LacksLeftOperand(tokens) ==
    \E i \in 1..Len(tokens) :
        /\ IsOperatorToken(tokens[i])
        /\ i = 1 \/ IsOperatorToken(tokens[i - 1]) \/ tokens[i - 1] = <<"(">>

\* C37: a validated expression in which an operator has no left operand (a
\* leading sign, a sign after an operator) fails with SyntaxError
C37_NoUnaryOperators ==
    Called /\ argument.typeof = "string" /\ WellFormed(Text)
           /\ LacksLeftOperand(tokenizeExpression(Text))
        => outcome = Throw(SYNTAX_ERROR)

(***************************************************************************)
(* The page: initialization and scrolling                                  *)
(***************************************************************************)
\* a call of initCalculator, by a script or by the automatic initialization
InitCalled ==
    \E display \in BOOLEAN : InitCall(display) \/ AutoInitialize(display)

(* C32: initCalculator creates at most one CalculatorUIController over the *)
(* page lifetime, and so at most one pair of document click/keydown        *)
(* listeners, also when init is called more than once while the document   *)
(* is loading; a call made when the instance exists returns that instance  *)
(* and constructs nothing.                                                 *)
C32_OneController ==
    /\ [](page.controllers <= 1 /\ page.listeners <= 1)
    /\ [][page.calculatorInstance # 0 /\ InitCalled
            => /\ page'.returned = page.calculatorInstance
               /\ page'.controllers = page.controllers
               /\ page'.listeners = page.listeners
               /\ page'.waiting = page.waiting]_vars

\* a scroll event: the window has moved to another position
ScrollEvent == scroll'.pageYOffset # scroll.pageYOffset

\* what the ScrollManager has recorded of the scroll position
Tracked == <<scroll.lastScrollPosition, scroll.scrollDirection, scroll.headerVisible>>

(* C38: the function Utils.throttle returns runs handleScroll at once when *)
(* no timeout is pending, and drops every scroll event that arrives while  *)
(* one is: the event changes nothing the ScrollManager records, and the    *)
(* timeout, when it fires, only reopens the throttle and runs nothing in   *)
(* place of the dropped event.  So lastScrollPosition and the header can   *)
(* stay behind the final scroll position with nothing left to run.         *)
C38_ThrottleDrops ==
    [][/\ ScrollEvent /\ ~scroll.inThrottle
           => /\ scroll'.lastScrollPosition = scroll'.pageYOffset
              /\ scroll'.inThrottle
       /\ ScrollEvent /\ scroll.inThrottle
           => /\ Tracked' = Tracked
              /\ scroll'.inThrottle
       /\ ~ScrollEvent => Tracked' = Tracked]_vars

\* the throttle is open again, and the position and the header are those of an earlier event
C38_LastEventDropped ==
    /\ ~scroll.inThrottle
    /\ scroll.lastScrollPosition # scroll.pageYOffset
    /\ handleScroll(scroll).headerVisible # scroll.headerVisible
====
